---- MODULE Spec2Model ----
(***************************************************************************)
(* Activity normalisation and training-load analytics of aironman:         *)
(* services/preprocess.py (TSS, target mapping) and                        *)
(* agents/zone_analysis_agent.py (zone binning).                           *)
(*                                                                         *)
(* Conventions.  Timestamps and durations are integers in milliseconds.    *)
(* An optional value (a missing dict key, None, NaN) is the empty tuple    *)
(* <<>>, a present value v is <<v>>.  The floats of the code are exact     *)
(* rationals <<n, d>> here; round(x, k) is round-half-even on the exact    *)
(* value.  Reported numbers with k decimals are integers scaled by 10^k    *)
(* (tss 100.00 is 10000, duration_hr 1.0000 is 10000).                     *)
(***************************************************************************)
EXTENDS Integers, Sequences, FiniteSets, TLC

VARIABLES
    pc,             \* which function has run on the record
    workout_type,   \* processed_data["workout_type"]
    data,           \* processed_data["data"]: the trackpoint list
    csv_file,       \* the swim split export: <<>> (no file) or <<rows>>
    profile,        \* the athlete profile (baselines and zone tables)
    metrics,        \* tss / duration_sec / duration_hr of the record
    zone_analysis,  \* processed_data["zone_analysis"]: <<>> or <<record>>
    zone_source,    \* which code path wrote zone_analysis
    sorted_df,      \* the DataFrame after sort_values in the zone fallback
    agent_reply,    \* what crew.kickoff() does when the zone agent is asked
    target_info,    \* fit_targets["workout_steps"]
    enhanced,       \* result of map_targets_to_timestamps
    step_name,      \* the wkt_step_name of a swim step, as a token sequence
    swim_targets,   \* result of extract_swim_targets_from_step_name
    workouts,       \* the rows of table workout
    daily_metrics,  \* the rows of table daily_metrics
    pmc_request,    \* the PMC call made last, with its arguments
    pmc_result,     \* what that call returned
    tcx_trackpoints,\* the trackpoints parsed from the TCX file
    power_series,   \* the power samples of the FIT file
    merged,         \* merge_power_into_tcx(tcx_trackpoints, power_series)
    merged_again,   \* merge_power_into_tcx(merged, power_series)
    workout_dir,    \* the files of one workout in its date directory
    processed,      \* the records process_activity_files returned, run by run
    pause_thresholds, \* two pause thresholds t1 <= t2, in seconds
    durations,      \* duration_sec under each of them: <<>> or <<d1, d2>>
    athlete_profile,\* the committed rows of table athlete_profile, oldest insert first
    profile_request,\* the profile call made last, with its arguments
    profile_result, \* what get_active_profile returned
    profile_txns,   \* the update_profile requests in progress and the wall clock
    date_dir,       \* the workouts of one date directory, in glob order
    profile_json,   \* data/athlete_profile/profile.json
    pipeline,       \* where process_downloaded_files stands, and its locals
    sync_files,     \* the processed workouts on disk, per day from today backwards
    workout_table,  \* the rows of table workout as the sync runs insert them
    sync_table,     \* last_synced_timestamp of data type 'workout': <<>> when NULL
    sync_runs       \* the sync runs: where each stands, and its locals

coreVars == <<pc, workout_type, data, csv_file, profile, metrics, zone_analysis,
              zone_source, sorted_df, agent_reply, target_info, enhanced>>
swimVars == <<step_name, swim_targets>>
pmcVars == <<workouts, daily_metrics, pmc_request, pmc_result>>
mergeVars == <<tcx_trackpoints, power_series, merged, merged_again>>
dirVars == <<workout_dir, processed>>
earlyVars == <<coreVars, swimVars, pmcVars, mergeVars, dirVars>>
pauseVars == <<pause_thresholds, durations>>
profVars == <<athlete_profile, profile_request, profile_result>>
txVars == <<profile_txns>>
pipeVars == <<date_dir, profile_json, pipeline>>
syncVars == <<sync_files, workout_table, sync_table, sync_runs>>
tailVars == <<pipeVars, syncVars>>
lateVars == <<pauseVars, profVars, txVars, tailVars>>
sideVars == <<swimVars, pmcVars, mergeVars, dirVars, lateVars>>
vars == <<coreVars, sideVars>>

-----------------------------------------------------------------------------
(* Bounds of the model *)

MaxLen == 3
MaxRows == 2
MaxWorkouts == 3
MaxTrack == 2
MaxSamples == 2
MaxRuns == 2
MaxProfiles == 3
MaxRequests == 2
MaxDir == 2
MaxSyncRuns == 2
SyncDays == 2

-----------------------------------------------------------------------------
(* Optional values and arithmetic helpers *)

NoneV == <<>>
Some(v) == <<v>>
IsSome(o) == o # <<>>
Val(o) == o[1]

Abs(x) == IF x < 0 THEN -x ELSE x

RECURSIVE GCD(_, _)
GCD(a, b) == IF b = 0 THEN a ELSE GCD(b, a % b)

\* the reduced fraction n/d, d > 0, n >= 0
Rat(n, d) == LET g == GCD(n, d) IN IF g = 0 THEN <<0, 1>> ELSE <<n \div g, d \div g>>

\* product of two reduced fractions, cross-reduced first to keep numbers small
RatMul(p, q) ==
    LET a == Rat(p[1], q[2])
        b == Rat(q[1], p[2])
    IN  <<a[1] * b[1], a[2] * b[2]>>

\* Python round(): round half to even, on the exact value n/d (n >= 0, d > 0)
PyRound(n, d) ==
    LET q == n \div d
        r == n % d
    IN  IF 2 * r < d THEN q
        ELSE IF 2 * r > d THEN q + 1
        ELSE IF q % 2 = 0 THEN q ELSE q + 1

RoundRat(p) == PyRound(p[1], p[2])

\* Python int() on a non-negative float: truncation
PyInt(n, d) == n \div d

\* sum of f(i) for i in lo..hi, by halving (the trackpoint lists can be long)
RECURSIVE SumOver(_, _, _)
SumOver(f(_), lo, hi) ==
    IF lo > hi THEN 0
    ELSE IF lo = hi THEN f(lo)
    ELSE LET mid == (lo + hi) \div 2
         IN  SumOver(f, lo, mid) + SumOver(f, mid + 1, hi)

SeqsUpTo(S, n) == UNION {[1..k -> S] : k \in 0..n}

\* sum of f(x) for x in the set S
RECURSIVE SetSum(_, _)
SetSum(f(_), S) ==
    IF S = {} THEN 0 ELSE LET x == CHOOSE y \in S : TRUE IN f(x) + SetSum(f, S \ {x})

\* the subsets of S with at most n elements
SubsetsUpTo(S, n) == {T \in SUBSET S : Cardinality(T) <= n}

-----------------------------------------------------------------------------
(* Trackpoints and the DataFrame operations used on them *)

\* one trackpoint dict: timestamp (ms) and the optional keys read by the code
Tp(t, hr, p, P) == [timestamp |-> t, heart_rate |-> hr, power |-> p, Power |-> P]

\* 'col' in df.columns: some dict of the list has the key
HasColumn(df, col) == \E i \in DOMAIN df : IsSome(df[i][col])

\* df.dropna(subset=[col])
dropna(df, col) == SelectSeq(df, LAMBDA r : IsSome(r[col]))

IsAscendingStrict(df) ==
    \A i \in 1..(Len(df) - 1) : df[i].timestamp < df[i + 1].timestamp

RECURSIVE SortedOrders(_, _)
SortedOrders(df, idx) ==
    IF idx = {} THEN {<<>>}
    ELSE LET firsts == {i \in idx : \A j \in idx : df[i].timestamp <= df[j].timestamp}
         IN  UNION {{<<df[i]>> \o rest : rest \in SortedOrders(df, idx \ {i})} : i \in firsts}

\* df.sort_values("timestamp"): pandas' default sort is not stable, so rows with
\* equal timestamps may come out in any order; every ascending order is possible
sort_values(df) ==
    IF IsAscendingStrict(df) THEN {df} ELSE SortedOrders(df, DOMAIN df)

\* df["timestamp"].diff().dt.total_seconds().fillna(0), in ms, row i of a sorted df
time_diff(df, i) == IF i = 1 THEN 0 ELSE df[i].timestamp - df[i - 1].timestamp

-----------------------------------------------------------------------------
(* TSS: services/preprocess.py *)

PAUSE_THRESHOLD == 5

NoMetrics == [tss |-> NoneV, duration_sec |-> NoneV, duration_hr |-> NoneV]

Round2(p) == RoundRat(RatMul(p, <<100, 1>>))
Round4(p) == RoundRat(RatMul(p, <<10000, 1>>))

\* the time spent in the gaps of threshold seconds and more, in ms
paused_time_at(df, threshold) ==
    LET kept(i) == IF time_diff(df, i) >= threshold * 1000 THEN time_diff(df, i) ELSE 0
    IN  SumOver(kept, 1, Len(df))

\* time_diffs[time_diffs < threshold].sum(), in ms
moving_time_at(df, threshold) ==
    LET kept(i) == IF time_diff(df, i) < threshold * 1000 THEN time_diff(df, i) ELSE 0
    IN  SumOver(kept, 1, Len(df))

\* time_diffs[time_diffs < PAUSE_THRESHOLD].sum(), in ms
moving_time(df) == moving_time_at(df, PAUSE_THRESHOLD)

\* tss = duration_hr * (IF ** 2) * 100
power_tss_linear(duration_hr, IF_) == RatMul(RatMul(duration_hr, IF_), <<100, 1>>)
power_tss(duration_hr, IF_) == RatMul(RatMul(RatMul(duration_hr, IF_), IF_), <<100, 1>>)

\* the tail shared by calculate_tss_bike and calculate_tss_run, on the sorted df
TssOfSorted(df, col, threshold) ==
    LET duration_ms == moving_time(df)
        duration_hr == Rat(duration_ms, 3600000)
        power(i)    == Val(df[i][col])
        IF_         == Rat(SumOver(power, 1, Len(df)), Len(df) * threshold)
        tss         == power_tss(duration_hr, IF_)
    IN  [tss          |-> Some(Round2(tss)),
         duration_sec |-> Some(PyInt(duration_ms, 1000)),
         duration_hr  |-> Some(Round4(duration_hr))]

\* the possible results of calculate_tss_bike (one per order sort_values may give)
calculate_tss_bike(trackpoints, ftp) ==
    IF ~HasColumn(trackpoints, "power") \/ trackpoints = <<>> THEN {NoMetrics}
    ELSE LET df == dropna(trackpoints, "power")
         IN  IF df = <<>> THEN {NoMetrics}
             ELSE {TssOfSorted(s, "power", ftp) : s \in sort_values(df)}

run_power_col(df) ==
    IF HasColumn(df, "Power") THEN Some("Power")
    ELSE IF HasColumn(df, "power") THEN Some("power") ELSE NoneV

calculate_tss_run(trackpoints, critical_power) ==
    LET power_col == run_power_col(trackpoints)
    IN  IF ~IsSome(power_col) \/ trackpoints = <<>> THEN {NoMetrics}
        ELSE LET df == dropna(trackpoints, Val(power_col))
             IN  IF df = <<>> THEN {NoMetrics}
                 ELSE {TssOfSorted(s, Val(power_col), critical_power) : s \in sort_values(df)}

(* Time and pace strings.  A string split at ":" is a sequence of parts; a    *)
(* part is <<>> when its text is not a number and <<k>> when it is the number *)
(* k/1000 (so "16" is <<16000>> and "40.5" is <<40500>>).  The empty string   *)
(* is the empty sequence.                                                     *)

\* int(part) succeeds: the text is an integer literal
IntOk(part) == IsSome(part) /\ Val(part) % 1000 = 0
\* float(part) succeeds
FloatOk(part) == IsSome(part)

\* parse_time_to_seconds, result in ms; every exception gives 0.0
parse_time_to_seconds(time_str) ==
    IF time_str = <<>> \/ time_str = << <<0>> >> THEN 0
    ELSE IF Len(time_str) = 3 THEN
        IF IntOk(time_str[1]) /\ IntOk(time_str[2]) /\ FloatOk(time_str[3])
        THEN (Val(time_str[1]) \div 1000) * 3600000
             + (Val(time_str[2]) \div 1000) * 60000 + Val(time_str[3])
        ELSE 0
    ELSE IF Len(time_str) = 2 THEN
        IF IntOk(time_str[1]) /\ FloatOk(time_str[2])
        THEN (Val(time_str[1]) \div 1000) * 60000 + Val(time_str[2])
        ELSE 0
    ELSE IF Len(time_str) = 1 /\ FloatOk(time_str[1]) THEN Val(time_str[1])
    ELSE 0

\* row.get("Split", "").strip().lower()
StripLower(split) ==
    IF split \in {"Summary", "summary", " Summary "} THEN "summary" ELSE split

\* for row in reversed(rows): the last row whose Split is "summary", if any
summary_row(rows) ==
    LET hits == {i \in DOMAIN rows : StripLower(rows[i].Split) = "summary"}
    IN  IF hits = {} THEN NoneV
        ELSE Some(rows[CHOOSE i \in hits : \A j \in hits : j <= i])

swim_tss_square(duration_hr, IF_) ==
    RatMul(RatMul(RatMul(IF_, IF_), duration_hr), <<100, 1>>)

\* sTSS = (IF ** 3) * duration_hr * 100
swim_tss(duration_hr, IF_) ==
    RatMul(RatMul(RatMul(RatMul(IF_, IF_), IF_), duration_hr), <<100, 1>>)

\* calculate_tss_swim on the rows of the split export; css is the profile's
\* zones.swim.css_pace_per_100m: <<>> (None or "") or <<the string's parts>>
calculate_tss_swim(rows, css) ==
    IF ~IsSome(css) THEN NoMetrics
    \* m, s = map(int, css.split(":")): ValueError unless two integer parts
    ELSE IF Len(Val(css)) # 2 \/ ~IntOk(Val(css)[1]) \/ ~IntOk(Val(css)[2]) THEN NoMetrics
    ELSE LET css_seconds == (Val(Val(css)[1]) \div 1000) * 60 + Val(Val(css)[2]) \div 1000
             summary == summary_row(rows)
         IN  \* css_speed = 100 / (css_seconds / 60): ZeroDivisionError
             IF css_seconds = 0 THEN NoMetrics
             ELSE IF ~IsSome(summary) THEN NoMetrics
             \* float(summary_row.get("Distance", 0)): ValueError
             ELSE IF ~IsSome(Val(summary).Distance) THEN NoMetrics
             ELSE LET css_speed      == Rat(6000, css_seconds)
                      total_distance == Val(Val(summary).Distance)
                      total_time_ms  == parse_time_to_seconds(Val(summary).Time)
                  IN  IF total_time_ms = 0 THEN NoMetrics
                      ELSE LET nss         == Rat(total_distance * 60000, total_time_ms)
                               IF_         == RatMul(nss, <<css_speed[2], css_speed[1]>>)
                               duration_hr == Rat(total_time_ms, 3600000)
                               sTSS        == swim_tss(duration_hr, IF_)
                           IN  [tss          |-> Some(Round2(sTSS)),
                                duration_sec |-> Some(PyInt(total_time_ms, 1000)),
                                duration_hr  |-> Some(Round4(duration_hr))]

workout_metrics_cp(wtype, trackpoints, csv, prof) ==
    IF wtype = "bike" THEN
        IF IsSome(prof.critical_power) /\ Val(prof.critical_power) # 0
        THEN calculate_tss_bike(trackpoints, Val(prof.critical_power)) ELSE {NoMetrics}
    ELSE IF wtype = "run" THEN
        IF IsSome(prof.critical_power) /\ Val(prof.critical_power) # 0
        THEN calculate_tss_run(trackpoints, Val(prof.critical_power)) ELSE {NoMetrics}
    ELSE IF wtype = "swim" THEN
        IF IsSome(csv) THEN {calculate_tss_swim(Val(csv), prof.css)} ELSE {NoMetrics}
    ELSE {NoMetrics}

\* the possible (tss, duration_sec, duration_hr) of calculate_workout_metrics;
\* a zero or None baseline is falsy
workout_metrics(wtype, trackpoints, csv, prof) ==
    IF wtype = "bike" THEN
        IF IsSome(prof.ftp) /\ Val(prof.ftp) # 0
        THEN calculate_tss_bike(trackpoints, Val(prof.ftp)) ELSE {NoMetrics}
    ELSE IF wtype = "run" THEN
        IF IsSome(prof.critical_power) /\ Val(prof.critical_power) # 0
        THEN calculate_tss_run(trackpoints, Val(prof.critical_power)) ELSE {NoMetrics}
    ELSE IF wtype = "swim" THEN
        IF IsSome(csv) THEN {calculate_tss_swim(Val(csv), prof.css)} ELSE {NoMetrics}
    ELSE {NoMetrics}

calculate_workout_metrics ==
    /\ pc = "processed"
    /\ \E m \in workout_metrics(workout_type, data, csv_file, profile) : metrics' = m
    /\ pc' = "metrics"
    /\ UNCHANGED <<workout_type, data, csv_file, profile, zone_analysis,
                   zone_source, sorted_df, agent_reply, target_info, enhanced>>
    /\ UNCHANGED sideVars

-----------------------------------------------------------------------------
(* Inputs of the TSS calculators *)

TssTimes == {0, 3000, 8000, 12500}
BikePoints == {Tp(t, NoneV, p, NoneV) : t \in TssTimes, p \in {NoneV, <<200>>, <<250>>}}
RunPoints ==
    {Tp(t, NoneV, p[1], p[2]) :
        t \in TssTimes, p \in {<<NoneV, NoneV>>, <<Some(200), NoneV>>, <<NoneV, Some(300)>>}}

\* one hour at one sample per second, 250 W throughout
HourRide == [i \in 1..3601 |-> Tp((i - 1) * 1000, NoneV, Some(250), NoneV)]

Baselines == {NoneV, <<0>>, <<200>>, <<250>>}

\* "16:40", "0", "1:00:00", "x:40"
TimeStrings ==
    {<< <<16000>>, <<40000>> >>, << <<0>> >>, << <<1000>>, <<0>>, <<0>> >>,
     << <<>>, <<40000>> >>}
CsvRows ==
    [Split : {"1", "Summary"}, Distance : {NoneV, <<1000>>, <<3600>>}, Time : TimeStrings]
\* None, "1:40", "2:00", "0:00", "100"
CssStrings ==
    {NoneV, Some(<< <<1000>>, <<40000>> >>), Some(<< <<2000>>, <<0>> >>),
     Some(<< <<0>>, <<0>> >>), Some(<< <<100000>> >>)}

NoZones == <<>>
NoReply == [kind |-> "none"]
BlankProfile ==
    [ftp |-> NoneV, critical_power |-> NoneV, css |-> NoneV,
     hr_zones |-> NoZones, bike_zones |-> NoZones, run_zones |-> NoZones]

CoreUntouched ==
    /\ metrics = NoMetrics
    /\ zone_analysis = NoneV
    /\ zone_source = "none"
    /\ sorted_df = <<>>
    /\ enhanced = <<>>

\* no record is being processed
CoreIdle ==
    /\ CoreUntouched
    /\ workout_type = "other"
    /\ data = <<>>
    /\ csv_file = NoneV
    /\ profile = BlankProfile
    /\ agent_reply = NoReply
    /\ target_info = NoneV

SwimUntouched == step_name = <<>> /\ swim_targets = <<>>

PmcUntouched ==
    /\ workouts = {}
    /\ daily_metrics = {}
    /\ pmc_request = [op |-> "none"]
    /\ pmc_result = [kind |-> "none"]

MergeUntouched ==
    /\ tcx_trackpoints = <<>>
    /\ power_series = <<>>
    /\ merged = <<>>
    /\ merged_again = <<>>

DirUntouched ==
    /\ workout_dir = <<>>
    /\ processed = <<>>

PauseUntouched == pause_thresholds = <<>> /\ durations = <<>>

EarlyUntouched == SwimUntouched /\ PmcUntouched /\ MergeUntouched /\ DirUntouched

ProfUntouched ==
    /\ athlete_profile = <<>>
    /\ profile_request = [op |-> "none"]
    /\ profile_result = <<>>

TxUntouched == profile_txns = <<>>

PipeUntouched ==
    /\ date_dir = <<>>
    /\ profile_json = <<>>
    /\ pipeline = [stage |-> "none"]

SyncUntouched ==
    /\ sync_files = <<>>
    /\ workout_table = <<>>
    /\ sync_table = <<>>
    /\ sync_runs = <<>>

TailUntouched == PipeUntouched /\ SyncUntouched

LateUntouched == PauseUntouched /\ ProfUntouched /\ TxUntouched /\ TailUntouched

SideUntouched == EarlyUntouched /\ LateUntouched

Untouched == CoreUntouched /\ SideUntouched

InitTss ==
    /\ pc = "processed"
    /\ Untouched
    /\ agent_reply = NoReply
    /\ target_info = NoneV
    /\ \/ /\ workout_type = "bike"
          /\ data \in SeqsUpTo(BikePoints, MaxLen) \cup {HourRide}
          /\ csv_file = NoneV
          /\ \E b \in Baselines : profile = [BlankProfile EXCEPT !.ftp = b]
       \/ /\ workout_type = "run"
          /\ data \in SeqsUpTo(RunPoints, MaxLen)
          /\ csv_file = NoneV
          /\ \E b \in Baselines : profile = [BlankProfile EXCEPT !.critical_power = b]
       \/ /\ workout_type \in {"swim", "other"}
          /\ data = <<>>
          /\ csv_file \in {NoneV} \cup {Some(r) : r \in SeqsUpTo(CsvRows, MaxRows)}
          /\ \E c \in CssStrings : profile = [BlankProfile EXCEPT !.css = c]

NextTss == calculate_workout_metrics

Spec == InitTss /\ [][NextTss]_vars

-----------------------------------------------------------------------------
(* Zone binning: agents/zone_analysis_agent.py *)

\* all_zones, and the keys of the two zone dicts of the result
AllZones == <<"z1", "z2", "zx", "z3", "zy", "z4", "z5">>
MinutesKey ==
    [z1 |-> "z1_minutes", z2 |-> "z2_minutes", zx |-> "zx_minutes", z3 |-> "z3_minutes",
     zy |-> "zy_minutes", z4 |-> "z4_minutes", z5 |-> "z5_minutes"]
ZoneKeys == {MinutesKey[AllZones[k]] : k \in DOMAIN AllZones}
ZoneOfKey(key) == CHOOSE z \in {AllZones[k] : k \in DOMAIN AllZones} : MinutesKey[z] = key

\* one item of a zone table (a dict in insertion order): zone -> [lower, upper];
\* a NULL column of the profile row gives a None bound
Z(name, lo, hi) == [zone |-> name, lower |-> Some(lo), upper |-> Some(hi)]
ZNull(name) == [zone |-> name, lower |-> NoneV, upper |-> NoneV]

\* an exception leaving the function
Raise == <<"raise", "TypeError">>

\* for zone, (lower, upper) in zones_def.items(): if lower <= value <= upper: return zone
\* (comparing a number with None raises TypeError)
RECURSIVE get_zone_from(_, _, _)
get_zone_from(value, zones_def, k) ==
    IF k > Len(zones_def) THEN NoneV
    ELSE IF ~IsSome(zones_def[k].lower) THEN Raise
    ELSE IF Val(zones_def[k].lower) <= value
         THEN IF ~IsSome(zones_def[k].upper) THEN Raise
              ELSE IF value <= Val(zones_def[k].upper) THEN Some(zones_def[k].zone)
              ELSE get_zone_from(value, zones_def, k + 1)
    ELSE get_zone_from(value, zones_def, k + 1)

get_hr_zone(hr, zones_def) == get_zone_from(hr, zones_def, 1)
get_power_zone(power, zones_def) == get_zone_from(power, zones_def, 1)

\* power_zones_def: None unless bike or run
power_zones_def(prof, wtype) ==
    IF wtype = "bike" THEN Some(prof.bike_zones)
    ELSE IF wtype = "run" THEN Some(prof.run_zones)
    ELSE NoneV

zone_power_col(df) == IF HasColumn(df, "power") THEN "power" ELSE "Power"

row_time_one_second(df, i) == 1000
row_time_moving(df, i) ==
    IF time_diff(df, i) < PAUSE_THRESHOLD * 1000 THEN time_diff(df, i) ELSE 0

\* time_minutes = row['time_diff_seconds'] / 60, in ms
row_time(df, i) == time_diff(df, i)

total_time_moving(df) == moving_time(df)

\* df['time_diff_seconds'].sum(), in ms
total_time(df) ==
    LET d(i) == time_diff(df, i) IN SumOver(d, 1, Len(df))

\* round(minutes, 2) of a time in ms, in hundredths of a minute
RoundMinutes(ms) == PyRound(ms, 600)

ZeroZones == [k \in ZoneKeys |-> 0]

EmptyZoneAnalysis ==
    [heart_rate_zones |-> ZeroZones, power_zones |-> ZeroZones,
     total_duration_minutes |-> 0,
     zones_available |-> [heart_rate |-> FALSE, power |-> FALSE]]

\* the zone each row credits, per metric: <<zone>>, <<>> or Raise
hr_hit(df, prof, i) ==
    IF HasColumn(df, "heart_rate") /\ IsSome(df[i].heart_rate)
    THEN get_hr_zone(Val(df[i].heart_rate), prof.hr_zones)
    ELSE NoneV

power_hit(df, prof, wtype, i) ==
    LET pdef == power_zones_def(prof, wtype)
        col  == zone_power_col(df)
    IN  IF /\ wtype \in {"bike", "run"} /\ HasColumn(df, col)
           /\ IsSome(pdef) /\ Val(pdef) # <<>>
           /\ IsSome(df[i][col])
        THEN get_power_zone(Val(df[i][col]), Val(pdef))
        ELSE NoneV

\* get_fallback_zone_analysis on the DataFrame as sort_values left it:
\* <<the result>> or Raise
fallback_on_sorted(df, prof, wtype) ==
    IF df = <<>> THEN Some(EmptyZoneAnalysis)
    ELSE LET hr_zone    == [i \in DOMAIN df |-> hr_hit(df, prof, i)]
             power_zone == [i \in DOMAIN df |-> power_hit(df, prof, wtype, i)]
             hr_ms(z) ==
                 LET c(i) == IF hr_zone[i] = Some(z) THEN row_time(df, i) ELSE 0
                 IN  SumOver(c, 1, Len(df))
             power_ms(z) ==
                 LET c(i) == IF power_zone[i] = Some(z) THEN row_time(df, i) ELSE 0
                 IN  SumOver(c, 1, Len(df))
         IN  IF \E i \in DOMAIN df : hr_zone[i] = Raise \/ power_zone[i] = Raise
             THEN Raise
             ELSE Some(
                 [heart_rate_zones |-> [k \in ZoneKeys |-> RoundMinutes(hr_ms(ZoneOfKey(k)))],
                  power_zones |-> [k \in ZoneKeys |-> RoundMinutes(power_ms(ZoneOfKey(k)))],
                  total_duration_minutes |-> RoundMinutes(total_time(df)),
                  zones_available |->
                      [heart_rate |-> HasColumn(df, "heart_rate"),
                       power |-> wtype \in {"bike", "run"}
                                 /\ HasColumn(df, zone_power_col(df))]])

\* the possible outcomes of get_fallback_zone_analysis, each with the sorted
\* DataFrame it was computed on
get_fallback_zone_analysis(trackpoints, prof, wtype) ==
    {<<s, fallback_on_sorted(s, prof, wtype)>> : s \in sort_values(trackpoints)}

run_fallback ==
    /\ pc = "processed"
    /\ \E r \in get_fallback_zone_analysis(data, profile, workout_type) :
          /\ sorted_df' = r[1]
          /\ \/ /\ r[2] # Raise
                /\ zone_analysis' = r[2]
                /\ zone_source' = "fallback"
             \/ /\ r[2] = Raise
                /\ zone_analysis' = NoneV
                /\ zone_source' = "raised"
    /\ pc' = "zones"
    /\ UNCHANGED <<workout_type, data, csv_file, profile, metrics, agent_reply,
                   target_info, enhanced>>
    /\ UNCHANGED sideVars

-----------------------------------------------------------------------------
(* Inputs of the zone binning *)

ZoneTimes == {0, 1000, 8000}
\* heart rate and power of one trackpoint
ZoneReadings ==
    {<<NoneV, NoneV>>, <<Some(125), NoneV>>, <<Some(140), Some(150)>>}
ZonePoints == {Tp(t, r[1], r[2], NoneV) : t \in ZoneTimes, r \in ZoneReadings}

\* the heart-rate series 125, 130, 135, 140 at one sample per second
HrScenario ==
    <<Tp(0, Some(125), NoneV, NoneV), Tp(1000, Some(130), NoneV, NoneV),
      Tp(2000, Some(135), NoneV, NoneV), Tp(3000, Some(140), NoneV, NoneV)>>

HrTwoZones == <<Z("z1", 120, 139), Z("z2", 140, 159)>>
HrOverlap ==
    <<Z("z1", 100, 145), Z("z2", 140, 159), Z("zx", 160, 164), Z("z3", 165, 169),
      Z("zy", 170, 174), Z("z4", 175, 184), Z("z5", 185, 220)>>
HrGap ==
    <<Z("z1", 100, 130), Z("z2", 150, 159), Z("zx", 160, 164), Z("z3", 165, 169),
      Z("zy", 170, 174), Z("z4", 175, 184), Z("z5", 185, 220)>>
HrUnset ==
    <<Z("z1", 120, 139), ZNull("z2"), ZNull("zx"), ZNull("z3"), ZNull("zy"),
      ZNull("z4"), ZNull("z5")>>
BikePower ==
    <<Z("z1", 0, 137), Z("z2", 138, 187), Z("zx", 188, 200), Z("z3", 201, 225),
      Z("zy", 226, 237), Z("z4", 238, 262), Z("z5", 263, 2000)>>
RunPowerOverlap ==
    <<Z("z1", 0, 200), Z("z2", 150, 250), Z("zx", 251, 260), Z("z3", 261, 280),
      Z("zy", 281, 290), Z("z4", 291, 320), Z("z5", 321, 2000)>>

\* sport and the zone tables of the profile
ZoneSetups ==
    {<<"bike", [BlankProfile EXCEPT !.hr_zones = HrTwoZones, !.bike_zones = BikePower]>>,
     <<"bike", [BlankProfile EXCEPT !.hr_zones = HrOverlap]>>,
     <<"run", [BlankProfile EXCEPT !.hr_zones = HrGap, !.run_zones = RunPowerOverlap]>>,
     <<"swim", [BlankProfile EXCEPT !.hr_zones = HrOverlap, !.bike_zones = BikePower]>>,
     <<"run", [BlankProfile EXCEPT !.hr_zones = HrUnset, !.run_zones = RunPowerOverlap]>>}

InitZones ==
    /\ pc = "processed"
    /\ Untouched
    /\ agent_reply = NoReply
    /\ target_info = NoneV
    /\ csv_file = NoneV
    /\ data \in SeqsUpTo(ZonePoints, MaxLen) \cup {HrScenario}
    /\ \E su \in ZoneSetups : workout_type = su[1] /\ profile = su[2]

NextZones == run_fallback

SpecZones == InitZones /\ [][NextZones]_vars

-----------------------------------------------------------------------------
(* Zone metrics of a workout: analyze_workout_zones, calculate_zone_metrics *)

\* required_keys of analyze_workout_zones
required_keys ==
    {"heart_rate_zones", "power_zones", "total_duration_minutes", "zones_available"}

\* The outcome of crew.kickoff() and json.loads:
\*   kind "raise"  the agent call raises
\*   kind "text"   the reply is no JSON object
\*   kind "json"   the reply parses to the dict zone_data
\* the reply is returned when it parses and holds the four required keys
agent_accepted(reply) ==
    reply.kind = "json" /\ required_keys \subseteq DOMAIN reply.zone_data

\* the possible outcomes <<source, sorted DataFrame, result or Raise>>
analyze_workout_zones(trackpoints, prof, wtype, reply) ==
    IF agent_accepted(reply)
    THEN {<<"agent", <<>>, Some(reply.zone_data)>>}
    ELSE {<<"fallback", r[1], r[2]>> :
              r \in get_fallback_zone_analysis(trackpoints, prof, wtype)}

EmptyDict == [k \in {} |-> 0]

\* a reply as the prompt asks for it
FullReply ==
    [heart_rate_zones |-> [ZeroZones EXCEPT !["z1_minutes"] = 5, !["z2_minutes"] = 7],
     power_zones |-> ZeroZones,
     total_duration_minutes |-> 15,
     zones_available |-> [heart_rate |-> TRUE, power |-> FALSE]]
\* the zones with no time left out
SparseReply ==
    [heart_rate_zones |-> [k \in {"z1_minutes", "z2_minutes"} |-> 5],
     power_zones |-> EmptyDict,
     total_duration_minutes |-> 10,
     zones_available |-> [heart_rate |-> TRUE, power |-> FALSE]]
\* no zones_available
ShortReply ==
    [heart_rate_zones |-> ZeroZones, power_zones |-> ZeroZones,
     total_duration_minutes |-> 0]

AgentReplies ==
    {[kind |-> "raise"], [kind |-> "text"]}
        \cup {[kind |-> "json", zone_data |-> d] : d \in {FullReply, SparseReply, ShortReply}}

calculate_zone_metrics ==
    /\ pc = "processed"
    /\ \/ /\ data = <<>>
          /\ zone_analysis' = NoneV
          /\ zone_source' = "skipped"
          /\ UNCHANGED <<sorted_df, agent_reply>>
       \/ /\ data # <<>>
          /\ \E reply \in AgentReplies :
                /\ agent_reply' = reply
                /\ \E r \in analyze_workout_zones(data, profile, workout_type, reply) :
                      /\ sorted_df' = r[2]
                      /\ \/ /\ r[3] # Raise
                            /\ zone_analysis' = r[3]
                            /\ zone_source' = r[1]
                         \/ /\ r[3] = Raise
                            /\ zone_analysis' = Some(EmptyZoneAnalysis)
                            /\ zone_source' = "except"
    /\ pc' = "zones"
    /\ UNCHANGED <<workout_type, data, csv_file, profile, metrics, target_info, enhanced>>
    /\ UNCHANGED sideVars

MetricTimes == {0, 1000}
MetricReadings == {<<NoneV, NoneV>>, <<Some(125), NoneV>>, <<Some(140), Some(150)>>}
MetricPoints == {Tp(t, r[1], r[2], NoneV) : t \in MetricTimes, r \in MetricReadings}

InitZoneMetrics ==
    /\ pc = "processed"
    /\ Untouched
    /\ agent_reply = NoReply
    /\ target_info = NoneV
    /\ csv_file = NoneV
    /\ data \in SeqsUpTo(MetricPoints, MaxLen)
    /\ \E su \in ZoneSetups : workout_type = su[1] /\ profile = su[2]

NextZoneMetrics == calculate_zone_metrics

SpecZoneMetrics == InitZoneMetrics /\ [][NextZoneMetrics]_vars

-----------------------------------------------------------------------------
(* Workout targets: map_targets_to_timestamps *)

\* One workout step of target_info["workout_steps"].  duration_value is in
\* ms; target_type is a name or a number, written "0" and "4" for the numbers
\* 0 and 4; custom_target_value_low/high are watts (bike) or m/s * 1000 (run).
Step(dtype, dvalue, ttype, low, high) ==
    [duration_type |-> dtype, duration_value |-> dvalue, target_type |-> ttype,
     target_value |-> Some(3), custom_target_value_low |-> low,
     custom_target_value_high |-> high, wkt_step_name |-> Some("step"),
     intensity |-> Some("active")]

speed_to_pace_per_mile(speed) == Rat(1609344, speed)

\* 1000.0 / (speed / 1000.0), seconds per km, as a fraction
speed_to_pace(speed) == Rat(1000000, speed)

\* 1000.0 / speed_mps if speed_mps > 0 else None
pace_or_none(speed) == IF speed > 0 THEN Some(speed_to_pace(speed)) ELSE NoneV

in_window_closed(cumulative_time, elapsed, duration) ==
    cumulative_time <= elapsed /\ elapsed <= cumulative_time + duration

\* cumulative_time <= elapsed_sec < cumulative_time + step_duration_sec, in ms
in_window(cumulative_time, elapsed, duration) ==
    cumulative_time <= elapsed /\ elapsed < cumulative_time + duration

\* a loop in which an Open step ends the search only as the last step
RECURSIVE find_step_skipping_open(_, _, _, _)
find_step_skipping_open(steps, elapsed, k, cumulative_time) ==
    IF k > Len(steps) THEN NoneV
    ELSE IF IsSome(steps[k].duration_value) /\ steps[k].duration_type = "time"
         THEN IF in_window(cumulative_time, elapsed, Val(steps[k].duration_value))
              THEN Some(k - 1)
              ELSE find_step_skipping_open(steps, elapsed, k + 1,
                                           cumulative_time + Val(steps[k].duration_value))
    ELSE IF steps[k].duration_type = "open" /\ elapsed >= cumulative_time /\ k = Len(steps)
         THEN Some(k - 1)
    ELSE find_step_skipping_open(steps, elapsed, k + 1, cumulative_time)

\* the loop over the steps from step k on: <<step_idx>> of the step found, or <<>>
RECURSIVE find_step(_, _, _, _)
find_step(steps, elapsed, k, cumulative_time) ==
    IF k > Len(steps) THEN NoneV
    ELSE IF IsSome(steps[k].duration_value) /\ steps[k].duration_type = "time"
         THEN IF in_window(cumulative_time, elapsed, Val(steps[k].duration_value))
              THEN Some(k - 1)
              ELSE find_step(steps, elapsed, k + 1,
                             cumulative_time + Val(steps[k].duration_value))
    ELSE IF steps[k].duration_type = "open" /\ elapsed >= cumulative_time
         THEN Some(k - 1)
    ELSE find_step(steps, elapsed, k + 1, cumulative_time)

\* the keys a bike trackpoint gets from its step
bike_targets(step) ==
    IF step.target_type \in {"power_3s", "0"}
    THEN [target_power_low |-> step.custom_target_value_low,
          target_power_high |-> step.custom_target_value_high,
          target_power_type |-> step.target_type]
    ELSE IF step.target_type = "4"
    THEN [target_power_zone |-> step.target_value, target_power_type |-> "zone"]
    ELSE EmptyDict

\* the keys a run trackpoint gets from its step
run_targets(step) ==
    IF step.target_type \in {"speed", "0"}
    THEN LET speed_low  == step.custom_target_value_low
             speed_high == step.custom_target_value_high
         IN  (IF IsSome(speed_low)
              THEN [target_pace_high |-> pace_or_none(Val(speed_low))] ELSE EmptyDict)
             @@ (IF IsSome(speed_high)
                 THEN [target_pace_low |-> pace_or_none(Val(speed_high))] ELSE EmptyDict)
             @@ [target_speed_low |-> speed_low, target_speed_high |-> speed_high,
                 target_speed_type |-> step.target_type]
    ELSE EmptyDict

\* the keys added to the copy of one trackpoint
annotation(steps, elapsed, wtype) ==
    LET found == find_step(steps, elapsed, 1, 0)
    IN  IF ~IsSome(found) THEN EmptyDict
        ELSE LET step == steps[Val(found) + 1]
             IN  (IF wtype = "bike" THEN bike_targets(step)
                  ELSE IF wtype = "run" THEN run_targets(step)
                  ELSE EmptyDict)
                 @@ [workout_step_index |-> Val(found),
                     workout_step_name |-> step.wkt_step_name,
                     workout_intensity |-> step.intensity]

\* the returned list: each trackpoint with the keys added to it
map_targets_to_timestamps(trackpoints, info, wtype) ==
    IF ~IsSome(info) \/ Val(info).workout_steps = <<>> \/ trackpoints = <<>>
    THEN [i \in DOMAIN trackpoints |-> [tp |-> trackpoints[i], added |-> EmptyDict]]
    ELSE LET workout_start == trackpoints[1].timestamp
         IN  [i \in DOMAIN trackpoints |->
                 [tp |-> trackpoints[i],
                  added |-> annotation(Val(info).workout_steps,
                                       trackpoints[i].timestamp - workout_start, wtype)]]

map_targets ==
    /\ pc = "parsed"
    /\ enhanced' = map_targets_to_timestamps(data, target_info, workout_type)
    /\ pc' = "mapped"
    /\ UNCHANGED <<workout_type, data, csv_file, profile, metrics, zone_analysis,
                   zone_source, sorted_df, agent_reply, target_info>>
    /\ UNCHANGED sideVars

MaxSteps == 2

TargetTimes == {0, 30000, 90000}
TargetPoints == {Tp(t, NoneV, NoneV, NoneV) : t \in TargetTimes}

TimeThenOpen ==
    <<Step("time", Some(60000), "power_3s", Some(100), Some(150)),
      Step("open", NoneV, "power_3s", Some(150), Some(200))>>

TargetSteps ==
    {TimeThenOpen[1], TimeThenOpen[2],
     Step("time", Some(30000), "0", Some(3000), Some(3500)),
     Step("open", NoneV, "speed", Some(2500), Some(3000)),
     Step("time", Some(30000), "speed", Some(0), NoneV),
     Step("time", Some(60000), "4", NoneV, NoneV),
     Step("distance", Some(1000), "heart_rate", NoneV, NoneV)}

InitTargets ==
    /\ pc = "parsed"
    /\ Untouched
    /\ agent_reply = NoReply
    /\ csv_file = NoneV
    /\ profile = BlankProfile
    /\ workout_type \in {"bike", "run", "swim"}
    /\ data \in SeqsUpTo(TargetPoints, MaxLen)
    /\ target_info \in
          {NoneV} \cup {Some([workout_steps |-> w]) : w \in SeqsUpTo(TargetSteps, MaxSteps)}

NextTargets == map_targets

SpecTargets == InitTargets /\ [][NextTargets]_vars

-----------------------------------------------------------------------------
(* Swim targets: extract_swim_targets_from_step_name *)

\* A step name is a sequence of tokens: a maximal run of digits ("num", with
\* its value), a run of whitespace ("ws"), one of the characters ":", "-",
\* "/" and the en dash ("endash"), or a word of other characters.
Num(n) == [kind |-> "num", n |-> n, text |-> ""]
Sym(kind) == [kind |-> kind, n |-> 0, text |-> ""]
Word(text) == [kind |-> "word", n |-> 0, text |-> text]

\* the words of the names below that end with "Pace"
EndsWithPace(tok) == tok.kind = "word" /\ tok.text \in {"Pace", "SubPace"}

\* (yards|meters) at the start of a word: the unit matched, "" if none
UnitAtStart(tok) ==
    IF tok.kind # "word" THEN ""
    ELSE IF tok.text \in {"yards", "yardsticks"} THEN "yards"
    ELSE IF tok.text = "meters" THEN "meters"
    ELSE ""

\* the pattern Pace\s+(\d+:\d+)–(\d+:\d+)/(\d+)\s+(yards|meters) matches from token k
pattern_at(name, k) ==
    /\ k + 12 <= Len(name)
    /\ EndsWithPace(name[k])
    /\ name[k + 1].kind = "ws"
    /\ name[k + 2].kind = "num" /\ name[k + 3].kind = ":" /\ name[k + 4].kind = "num"
    /\ name[k + 5].kind = "endash"
    /\ name[k + 6].kind = "num" /\ name[k + 7].kind = ":" /\ name[k + 8].kind = "num"
    /\ name[k + 9].kind = "/"
    /\ name[k + 10].kind = "num"
    /\ name[k + 11].kind = "ws"
    /\ UnitAtStart(name[k + 12]) # ""

pace_to_seconds_decimal(minutes, seconds) == minutes * 100 + seconds

\* minutes * 60 + seconds
pace_to_seconds(minutes, seconds) == minutes * 60 + seconds

\* re.search: the leftmost match
extract_swim_targets_from_step_name(name) ==
    LET starts == {k \in DOMAIN name : pattern_at(name, k)}
    IN  IF name = <<>> \/ starts = {} THEN EmptyDict
        ELSE LET k == CHOOSE j \in starts : \A h \in starts : j <= h
             IN  [target_pace_low |-> pace_to_seconds(name[k + 2].n, name[k + 4].n),
                  target_pace_high |-> pace_to_seconds(name[k + 6].n, name[k + 8].n),
                  target_distance |-> name[k + 10].n,
                  target_unit |-> UnitAtStart(name[k + 12])]

extract_swim_targets ==
    /\ pc = "step"
    /\ swim_targets' = extract_swim_targets_from_step_name(step_name)
    /\ pc' = "extracted"
    /\ UNCHANGED <<workout_type, data, csv_file, profile, metrics, zone_analysis,
                   zone_source, sorted_df, agent_reply, target_info, enhanced>>
    /\ UNCHANGED <<step_name, pmcVars, mergeVars, dirVars, lateVars>>

\* m:ss as tokens
PaceTokens(p) == <<Num(p[1]), Sym(":"), Num(p[2])>>
Spaces(present) == IF present THEN <<Sym("ws")>> ELSE <<>>

\* keyword, space, low pace, dash, high pace, "/", distance, space, unit
PaceText(keyword, space1, low, dash, high, distance, space2, unit) ==
    <<Word(keyword)>> \o Spaces(space1) \o PaceTokens(low) \o <<Sym(dash)>>
        \o PaceTokens(high) \o <<Sym("/"), Num(distance)>> \o Spaces(space2)
        \o <<Word(unit)>>

PaceTexts ==
    {PaceText(kw, s1, lo, d, hi, n, s2, u) :
        kw \in {"Pace", "SubPace", "pace"}, s1 \in BOOLEAN,
        lo \in {<<2, 26>>, <<1, 45>>}, d \in {"endash", "-"},
        hi \in {<<2, 43>>, <<2, 0>>}, n \in {100, 50}, s2 \in BOOLEAN,
        u \in {"yards", "meters", "yardsticks", "m"}}

\* "Pace 2:26–2:43/100 yards" and "Pace 1:45–2:00/50 meters"
YardsName == PaceText("Pace", TRUE, <<2, 26>>, "endash", <<2, 43>>, 100, TRUE, "yards")
MetersName == PaceText("Pace", TRUE, <<1, 45>>, "endash", <<2, 0>>, 50, TRUE, "meters")

\* "", "Just some text", "100m", "@ 1:45/100m", and a name with two pace texts
OtherNames ==
    {<<>>,
     <<Word("Just"), Sym("ws"), Word("some"), Sym("ws"), Word("text")>>,
     <<Num(100), Word("m")>>,
     <<Word("@"), Sym("ws"), Num(1), Sym(":"), Num(45), Sym("/"), Num(100), Word("m")>>,
     YardsName \o <<Sym("ws")>> \o MetersName}

StepNames ==
    {before \o t \o after :
        before \in {<<>>, <<Word("Easy"), Sym("ws")>>}, t \in PaceTexts,
        after \in {<<>>, <<Sym("ws"), Word("easy")>>}}
      \cup OtherNames

InitSwimTargets ==
    /\ pc = "step"
    /\ CoreIdle
    /\ step_name \in StepNames
    /\ swim_targets = <<>>
    /\ PmcUntouched
    /\ MergeUntouched
    /\ DirUntouched
    /\ LateUntouched

NextSwimTargets == extract_swim_targets

SpecSwimTargets == InitSwimTargets /\ [][NextSwimTargets]_vars

-----------------------------------------------------------------------------
(* PMC: services/pmc_metrics.py *)

\* Dates are day numbers, a timestamp is a day and the seconds since its
\* midnight, TSS values of the workout table are whole numbers.  Floats are
\* kept as fixed-point numbers with six decimals (millionths).

CTL_DECAY_DAYS == 42
ATL_DECAY_DAYS == 7

Million == 1000000

\* math.pow(math.exp(-1 / 42), d) for d = 0..42, in millionths
CtlWeights ==
    <<1000000, 976472, 953497, 931063, 909156, 887766, 866878, 846482,
      826565, 807118, 788128, 769584, 751477, 733796, 716531, 699673,
      683210, 667136, 651439, 636112, 621145, 606531, 592260, 578325,
      564718, 551431, 538457, 525788, 513417, 501337, 489542, 478024,
      466776, 455794, 445070, 434598, 424373, 414388, 404638, 395118,
      385821, 376744, 367879>>

\* math.pow(math.exp(-1 / 7), d) for d = 0..7, in millionths
AtlWeights ==
    <<1000000, 866878, 751477, 651439, 564718, 489542, 424373, 367879>>

\* math.pow(calculate_decay_factor(days), days_diff), in millionths
decay_weight(days, days_diff) ==
    IF days = CTL_DECAY_DAYS THEN CtlWeights[days_diff + 1] ELSE AtlWeights[days_diff + 1]

\* a / b with six decimals (a >= 0, b > 0), two digits at a time
Quotient6(a, b) ==
    LET r0 == a % b
        d1 == (r0 * 100) \div b
        r1 == (r0 * 100) % b
        d2 == (r1 * 100) \div b
        r2 == (r1 * 100) % b
        d3 == (r2 * 100) \div b
    IN  (a \div b) * Million + d1 * 10000 + d2 * 100 + d3

\* round(x, 2) of a value in millionths, in hundredths
Round2Of6(x) == PyRound(x, 10000)

in_window_open(days, days_diff) == days_diff >= 0 /\ days_diff < days

\* days_diff >= 0 and days_diff <= self.CTL_DECAY_DAYS (resp. ATL_DECAY_DAYS)
in_decay_window(days, days_diff) == days_diff >= 0 /\ days_diff <= days

\* calculate_ctl / calculate_atl on a list of {'date', 'tss'}, in millionths
weighted_load(list, target_date, days) ==
    LET used == {w \in list : in_decay_window(days, target_date - w.date)}
        weight(w) == decay_weight(days, target_date - w.date)
        load(w) == w.tss * weight(w)
    IN  IF used = {} THEN 0
        ELSE Quotient6(SetSum(load, used), SetSum(weight, used))

calculate_ctl(list, target_date) == weighted_load(list, target_date, CTL_DECAY_DAYS)
calculate_atl(list, target_date) == weighted_load(list, target_date, ATL_DECAY_DAYS)

tsb_of_rounded(ctl, atl) == Round2Of6(ctl) - Round2Of6(atl)

\* round(calculate_tsb(ctl, atl), 2)
tsb_rounded(ctl, atl) == Round2Of6(ctl - atl)

\* the dict returned by calculate_daily_metrics and as summary, with the
\* unrounded ctl and atl next to it
pmc_values(kind, list, target_date) ==
    LET ctl == calculate_ctl(list, target_date)
        atl == calculate_atl(list, target_date)
    IN  [kind |-> kind, ctl_raw |-> ctl, atl_raw |-> atl,
         ctl |-> Round2Of6(ctl), atl |-> Round2Of6(atl), tsb |-> tsb_rounded(ctl, atl)]

\* the names in table athlete
Athletes == {"a1", "a2"}

\* one row of table workout: tss is <<>> when NULL
WorkoutRow(athlete, day, time, tss) ==
    [athlete_id |-> athlete, day |-> day, time |-> time, tss |-> tss]

SecondsPerDay == 86400

\* a timestamp, and a date compared with a timestamp (its midnight), in seconds
Stamp(day, time) == day * SecondsPerDay + time
Midnight(day) == Stamp(day, 0)

\* the list element {'date': row[0].date(), 'tss': float(row[1])} of a row
DatedTss(row) ==
    [date |-> row.day, tss |-> Val(row.tss), time |-> row.time, athlete_id |-> row.athlete_id]

\* SELECT timestamp, tss FROM workout WHERE athlete_id = .. AND timestamp >=
\* start_date AND timestamp <= end_date AND tss IS NOT NULL
get_workouts_for_athlete(athlete, start_date, end_date) ==
    {DatedTss(row) : row \in
        {r \in workouts :
            /\ r.athlete_id = athlete
            /\ Stamp(r.day, r.time) >= Midnight(start_date)
            /\ Stamp(r.day, r.time) <= Midnight(end_date)
            /\ IsSome(r.tss)}}

TargetDates == {100, 101}

calculate_daily_metrics ==
    /\ pc = "pmc"
    /\ \E athlete \in Athletes \cup {"nobody"}, target_date \in TargetDates :
          /\ pmc_request' = [op |-> "calculate_daily_metrics", athlete_id |-> athlete,
                             target_date |-> target_date]
          /\ pmc_result' =
                IF athlete \in Athletes
                THEN pmc_values("metrics",
                                get_workouts_for_athlete(
                                    athlete, target_date - CTL_DECAY_DAYS, target_date),
                                target_date)
                ELSE [kind |-> "DatabaseException"]
    /\ UNCHANGED <<coreVars, swimVars, mergeVars, dirVars, lateVars, workouts, daily_metrics>>

\* calculate_pmc_metrics on the workouts of the table, today being target_date
calculate_pmc_metrics ==
    /\ pc = "pmc"
    /\ \E today \in TargetDates :
          /\ pmc_request' = [op |-> "calculate_pmc_metrics", today |-> today]
          /\ pmc_result' =
                IF \E r \in workouts : ~IsSome(r.tss)
                THEN [kind |-> "TypeError"]
                ELSE pmc_values("summary", {DatedTss(r) : r \in workouts}, today)
    /\ UNCHANGED <<coreVars, swimVars, mergeVars, dirVars, lateVars, workouts, daily_metrics>>

\* the workouts of a1 around date 100, and two of a2
WorkoutRows ==
    {WorkoutRow("a1", 57, 0, Some(50)),
     WorkoutRow("a1", 58, 0, Some(50)),
     WorkoutRow("a1", 58, 36000, Some(100)),
     WorkoutRow("a1", 92, 0, Some(100)),
     WorkoutRow("a1", 93, 0, Some(50)),
     WorkoutRow("a1", 99, 0, Some(120)),
     WorkoutRow("a1", 99, 36000, NoneV),
     WorkoutRow("a1", 100, 0, Some(100)),
     WorkoutRow("a1", 100, 36000, Some(50)),
     WorkoutRow("a1", 101, 0, Some(100)),
     WorkoutRow("a2", 99, 0, Some(100)),
     WorkoutRow("a2", 100, 0, Some(50))}

InitPMC ==
    /\ pc = "pmc"
    /\ CoreIdle
    /\ SwimUntouched
    /\ MergeUntouched
    /\ DirUntouched
    /\ LateUntouched
    /\ workouts \in SubsetsUpTo(WorkoutRows, MaxWorkouts)
    /\ daily_metrics = {}
    /\ pmc_request = [op |-> "none"]
    /\ pmc_result = [kind |-> "none"]

NextPMC == calculate_daily_metrics \/ calculate_pmc_metrics

SpecPMC == InitPMC /\ [][NextPMC]_vars

\* one row of table daily_metrics
DailyRow(athlete, day, m) ==
    [athlete_id |-> athlete, date |-> day, ctl |-> m.ctl, atl |-> m.atl, tsb |-> m.tsb]

upsert_keep_first(rows, athlete, day, m) ==
    IF \E r \in rows : r.athlete_id = athlete /\ r.date = day THEN rows
    ELSE rows \cup {DailyRow(athlete, day, m)}

\* INSERT INTO daily_metrics .. ON CONFLICT (athlete_id, date) DO UPDATE SET ..
upsert(rows, athlete, day, m) ==
    {r \in rows : ~(r.athlete_id = athlete /\ r.date = day)}
        \cup {DailyRow(athlete, day, m)}

\* metrics dicts handed to save_daily_metrics, in hundredths
MetricsChoices ==
    {[ctl |-> 0, atl |-> 0, tsb |-> 0],
     [ctl |-> 8750, atl |-> 9914, tsb |-> -1165],
     [ctl |-> 7530, atl |-> 7678, tsb |-> -149]}

save_daily_metrics ==
    /\ pc = "pmc"
    /\ \E athlete \in Athletes \cup {"nobody"}, target_date \in TargetDates,
          m \in MetricsChoices :
          /\ pmc_request' = [op |-> "save_daily_metrics", athlete_id |-> athlete,
                             target_date |-> target_date, metrics |-> m]
          /\ IF athlete \in Athletes
             THEN /\ daily_metrics' = upsert(daily_metrics, athlete, target_date, m)
                  /\ pmc_result' = [kind |-> "saved"]
             ELSE /\ daily_metrics' = daily_metrics
                  /\ pmc_result' = [kind |-> "DatabaseException"]
    /\ UNCHANGED <<coreVars, swimVars, mergeVars, dirVars, lateVars, workouts>>

InitDailyMetrics ==
    /\ pc = "pmc"
    /\ CoreIdle
    /\ SwimUntouched
    /\ PmcUntouched
    /\ MergeUntouched
    /\ DirUntouched
    /\ LateUntouched

NextDailyMetrics == save_daily_metrics

SpecDailyMetrics == InitDailyMetrics /\ [][NextDailyMetrics]_vars

-----------------------------------------------------------------------------
(* Merging power samples: merge_power_into_tcx *)

\* A timestamp text: <<>> when dtparser cannot parse it, else the wall-clock
\* time it spells (ms) and its timezone suffix.  A trackpoint or power sample
\* is its timestamp and the dict of its other keys.
TS(wall, tz) == Some([wall |-> wall, tz |-> tz])
BadTS == NoneV
Entry(ts, fields) == [timestamp |-> ts, fields |-> fields]

\* dtparser.parse(text).replace(microsecond=0, tzinfo=None), in seconds
lookup_key(ts) == Val(ts).wall \div 1000

first_sample(hits) == CHOOSE i \in hits : \A j \in hits : i <= j

\* the sample whose fields power_lookup holds for a key: the last one stored
stored_sample(hits) == CHOOSE i \in hits : \A j \in hits : j <= i

\* power_lookup.get(ts): <<fields>> of the sample stored under the key, or <<>>
power_lookup(series, key) ==
    LET hits == {i \in DOMAIN series :
                    IsSome(series[i].timestamp) /\ lookup_key(series[i].timestamp) = key}
    IN  IF hits = {} THEN NoneV ELSE Some(series[stored_sample(hits)].fields)

\* merged_tp = dict(tp); merged_tp.update(power_lookup[ts])
merged_tp(tp, series) ==
    IF ~IsSome(tp.timestamp) THEN tp
    ELSE LET found == power_lookup(series, lookup_key(tp.timestamp))
         IN  IF IsSome(found) THEN [tp EXCEPT !.fields = Val(found) @@ @] ELSE tp

merge_dropping_unparsed(trackpoints, series) ==
    LET kept == SelectSeq(trackpoints, LAMBDA tp : IsSome(tp.timestamp))
    IN  [i \in DOMAIN kept |-> merged_tp(kept[i], series)]

merge_power_into_tcx(trackpoints, series) ==
    [i \in DOMAIN trackpoints |-> merged_tp(trackpoints[i], series)]

merge_power ==
    /\ pc = "parsed_tcx"
    /\ merged' = merge_power_into_tcx(tcx_trackpoints, power_series)
    /\ pc' = "merged"
    /\ UNCHANGED <<workout_type, data, csv_file, profile, metrics, zone_analysis,
                   zone_source, sorted_df, agent_reply, target_info, enhanced>>
    /\ UNCHANGED <<swimVars, pmcVars, dirVars, lateVars, tcx_trackpoints, power_series, merged_again>>

merge_power_again ==
    /\ pc = "merged"
    /\ merged_again' = merge_power_into_tcx(merged, power_series)
    /\ pc' = "merged_twice"
    /\ UNCHANGED <<workout_type, data, csv_file, profile, metrics, zone_analysis,
                   zone_source, sorted_df, agent_reply, target_info, enhanced>>
    /\ UNCHANGED <<swimVars, pmcVars, dirVars, lateVars, tcx_trackpoints, power_series, merged>>

TcxEntries ==
    {Entry(TS(0, "Z"), [heart_rate |-> 120]),
     Entry(TS(400, "Z"), [heart_rate |-> 121, power |-> 100]),
     Entry(TS(1000, "+02:00"), [heart_rate |-> 122]),
     Entry(BadTS, [heart_rate |-> 123]),
     Entry(TS(2000, "Z"), [heart_rate |-> 124])}

PowerEntries ==
    {Entry(TS(0, "Z"), [power |-> 200]),
     Entry(TS(900, "Z"), [accumulated_power |-> 5]),
     Entry(TS(1000, "Z"), [power |-> 250]),
     Entry(BadTS, [power |-> 300]),
     Entry(TS(3000, "Z"), [power |-> 260])}

InitMerge ==
    /\ pc = "parsed_tcx"
    /\ CoreIdle
    /\ SwimUntouched
    /\ PmcUntouched
    /\ tcx_trackpoints \in SeqsUpTo(TcxEntries, MaxTrack)
    /\ power_series \in SeqsUpTo(PowerEntries, MaxSamples)
    /\ merged = <<>>
    /\ merged_again = <<>>
    /\ DirUntouched
    /\ LateUntouched

NextMerge == merge_power \/ merge_power_again

SpecMerge == InitMerge /\ [][NextMerge]_vars

-----------------------------------------------------------------------------
(* One workout's files: process_activity_files *)

\* The directory holds the TCX file, perhaps the ZIP of the download (which may
\* or may not contain a FIT file) and perhaps the _power.json of an earlier
\* run.  A Trackpoint element of the TCX has a Time child or none.  An active
\* athlete profile exists.
Fit(power, steps) == [power |-> power, workout_steps |-> steps]
Trackpoint(time, fields) == [Time |-> time, fields |-> fields]
Dir(tcx, zip, power_json) == [tcx |-> tcx, zip |-> zip, power_json |-> power_json]

\* the trackpoints in document order, those without a Time element left out
parse_tcx_file(tcx) ==
    LET timed == SelectSeq(tcx, LAMBDA el : IsSome(el.Time))
    IN  [i \in DOMAIN timed |-> Entry(timed[i].Time, timed[i].fields)]

\* the ZIP of the download and the FIT file in it, if any
Zip(fit) == Some([fit |-> fit])

\* dtparser.parse(tp["timestamp"]) of every trackpoint, as map_targets reads it
parsed_time(trackpoints) ==
    [i \in DOMAIN trackpoints |->
        [timestamp |-> Val(trackpoints[i].timestamp).wall,
         fields |-> trackpoints[i].fields]]

\* fit_targets: None without a ZIP or without a FIT in it, else the dict of
\* extract_workout_targets_from_fit
fit_targets_of(zip) ==
    IF IsSome(zip) /\ IsSome(Val(zip).fit)
    THEN Some([workout_steps |-> Val(Val(zip).fit).workout_steps])
    ELSE NoneV

\* the _power.json after the FIT's power series, if any, was saved
power_json_after(dir) ==
    IF IsSome(dir.zip) /\ IsSome(Val(dir.zip).fit) /\ Val(Val(dir.zip).fit).power # <<>>
    THEN Some(Val(Val(dir.zip).fit).power)
    ELSE dir.power_json

\* the dict process_activity_files returns; target_info <<>> is the absent key
processed_data(dir, wtype) ==
    LET fit_targets == fit_targets_of(dir.zip)
        stored      == power_json_after(dir)
        trackpoints == parse_tcx_file(dir.tcx)
        merged_data == IF IsSome(stored) /\ Val(stored) # <<>>
                       THEN merge_power_into_tcx(trackpoints, Val(stored))
                       ELSE trackpoints
    IN  IF IsSome(fit_targets) /\ wtype \in {"bike", "run", "swim"}
        THEN [workout_type |-> wtype,
              data |-> map_targets_to_timestamps(parsed_time(merged_data),
                                                 fit_targets, wtype),
              target_info |-> fit_targets]
        ELSE [workout_type |-> wtype,
              data |-> map_targets_to_timestamps(parsed_time(merged_data), NoneV, wtype),
              target_info |-> NoneV]

process_activity_files ==
    /\ pc = "downloaded"
    /\ Len(processed) < MaxRuns
    /\ processed' = Append(processed, processed_data(workout_dir, workout_type))
    /\ workout_dir' = [workout_dir EXCEPT !.zip = NoneV,
                                          !.power_json = power_json_after(workout_dir)]
    /\ UNCHANGED <<coreVars, swimVars, pmcVars, mergeVars, lateVars>>

TcxElements ==
    {Trackpoint(TS(0, "Z"), [heart_rate |-> 120]),
     Trackpoint(TS(1000, "Z"), [heart_rate |-> 121]),
     Trackpoint(NoneV, [heart_rate |-> 122])}

FitPower == {<<>>, <<Entry(TS(1000, "Z"), [power |-> 200])>>}

Zips ==
    {NoneV, Zip(NoneV)}
        \cup {Zip(Some(Fit(p, w))) : p \in FitPower, w \in {<<>>, TimeThenOpen}}

InitDir ==
    /\ pc = "downloaded"
    /\ CoreUntouched
    /\ workout_type \in {"bike", "other"}
    /\ data = <<>>
    /\ csv_file = NoneV
    /\ profile = BlankProfile
    /\ agent_reply = NoReply
    /\ target_info = NoneV
    /\ SwimUntouched
    /\ PmcUntouched
    /\ MergeUntouched
    /\ workout_dir \in {Dir(t, z, NoneV) : t \in SeqsUpTo(TcxElements, MaxTrack), z \in Zips}
    /\ processed = <<>>
    /\ LateUntouched

NextDir == process_activity_files

SpecDir == InitDir /\ [][NextDir]_vars

-----------------------------------------------------------------------------
(* Moving time under two pause thresholds *)

\* the possible duration_sec of calculate_tss_bike were PAUSE_THRESHOLD the
\* given threshold; <<>> where the function returns None
duration_sec_at(trackpoints, threshold) ==
    IF ~HasColumn(trackpoints, "power") \/ trackpoints = <<>> THEN {NoneV}
    ELSE LET df == dropna(trackpoints, "power")
         IN  IF df = <<>> THEN {NoneV}
             ELSE {Some(PyInt(moving_time_at(s, threshold), 1000)) : s \in sort_values(df)}

compare_thresholds ==
    /\ pc = "timed"
    /\ \E d1 \in duration_sec_at(data, pause_thresholds[1]),
          d2 \in duration_sec_at(data, pause_thresholds[2]) :
          durations' = <<d1, d2>>
    /\ pc' = "compared"
    /\ UNCHANGED <<workout_type, data, csv_file, profile, metrics, zone_analysis,
                   zone_source, sorted_df, agent_reply, target_info, enhanced>>
    /\ UNCHANGED <<swimVars, pmcVars, mergeVars, dirVars, profVars, txVars, tailVars,
                   pause_thresholds>>

PauseTimes == {0, 3000, 8000, 12500}
PausePoints == {Tp(t, NoneV, p, NoneV) : t \in PauseTimes, p \in {NoneV, <<200>>}}
Thresholds == {3, PAUSE_THRESHOLD, 9}

InitPause ==
    /\ pc = "timed"
    /\ CoreUntouched
    /\ workout_type = "bike"
    /\ data \in SeqsUpTo(PausePoints, MaxLen)
    /\ csv_file = NoneV
    /\ profile = BlankProfile
    /\ agent_reply = NoReply
    /\ target_info = NoneV
    /\ EarlyUntouched
    /\ pause_thresholds \in {t \in Thresholds \X Thresholds : t[1] <= t[2]}
    /\ durations = <<>>
    /\ ProfUntouched
    /\ TxUntouched
    /\ TailUntouched

NextPause == compare_thresholds

SpecPause == InitPause /\ [][NextPause]_vars

-----------------------------------------------------------------------------
(* Athlete profiles: api/main.py update_profile, utils/database.py *)

\* the body of PUT /api/profile: the athlete's name, a baseline and a pace text
ProfilePayload(athlete, ftp, css) ==
    [athlete_id |-> athlete, ftp |-> ftp, css_pace_per_100m |-> css]

\* one row of athlete_profile; valid_to is <<>> when NULL; times in seconds
ProfileRow(athlete, valid_from, valid_to, ftp, css_seconds) ==
    [json_athlete_id |-> athlete, valid_from |-> valid_from, valid_to |-> valid_to,
     bike_ftp_power |-> ftp, swim_css_pace_per_100 |-> css_seconds]

\* pace_to_seconds of api/main.py: "m:ss" or a plain integer, else 0
profile_pace_to_seconds(pace) ==
    IF Len(pace) = 2 /\ IntOk(pace[1]) /\ IntOk(pace[2])
    THEN (Val(pace[1]) \div 1000) * 60 + Val(pace[2]) \div 1000
    ELSE IF Len(pace) = 1 /\ IntOk(pace[1]) THEN Val(pace[1]) \div 1000
    ELSE 0

\* to_str of _parse_profile_row: the decimal text of a number
to_str(n) == << <<n * 1000>> >>

\* INSERT INTO athlete_profile (...) VALUES (..., now, NULL, ...)
insert_profile(rows, payload, now) ==
    Append(rows, ProfileRow(payload.athlete_id, now, NoneV, payload.ftp,
                            profile_pace_to_seconds(payload.css_pace_per_100m)))

\* an UPDATE that closes the row just inserted as well
close_through_now(rows, athlete, now) ==
    [i \in DOMAIN rows |->
        IF /\ rows[i].json_athlete_id = athlete
           /\ rows[i].valid_to = NoneV
           /\ rows[i].valid_from <= now
        THEN [rows[i] EXCEPT !.valid_to = Some(now - 1)] ELSE rows[i]]

\* UPDATE athlete_profile SET valid_to = now - 1 s
\* WHERE athlete_id = .. AND valid_to IS NULL AND valid_from < now
close_previous(rows, athlete, now) ==
    [i \in DOMAIN rows |->
        IF /\ rows[i].json_athlete_id = athlete
           /\ rows[i].valid_to = NoneV
           /\ rows[i].valid_from < now
        THEN [rows[i] EXCEPT !.valid_to = Some(now - 1)] ELSE rows[i]]

\* the rows SELECT .. WHERE valid_to IS NULL [AND json_athlete_id = ..]
\* ORDER BY valid_from DESC LIMIT 1 may return (any of the latest ones)
latest_active(rows, athlete) ==
    LET open == {i \in DOMAIN rows :
                    /\ rows[i].valid_to = NoneV
                    /\ (IsSome(athlete) => rows[i].json_athlete_id = Val(athlete))}
    IN  {i \in open : \A j \in open : rows[j].valid_from <= rows[i].valid_from}

\* _parse_profile_row
parse_profile_row(row) ==
    [athlete_id |-> row.json_athlete_id, ftp |-> row.bike_ftp_power,
     css_pace_per_100m |-> to_str(row.swim_css_pace_per_100)]

ClockTimes == {10, 20, 30}
\* "1:40" and "1:45"
PaceTextsSent == {<< <<1000>>, <<40000>> >>, << <<1000>>, <<45000>> >>}
ProfilePayloads ==
    {ProfilePayload(a, pl[1], pl[2]) :
        a \in Athletes, pl \in {<<250, << <<1000>>, <<40000>> >> >>,
                                <<260, << <<1000>>, <<45000>> >> >>}}

\* PUT /api/profile; datetime.now() is whatever the wall clock reads
update_profile ==
    /\ pc = "profiles"
    /\ Len(athlete_profile) < MaxProfiles
    /\ \E payload \in ProfilePayloads, now \in ClockTimes :
          /\ athlete_profile' =
                close_previous(insert_profile(athlete_profile, payload, now),
                               payload.athlete_id, now)
          /\ profile_request' = [op |-> "update_profile", payload |-> payload, now |-> now]
    /\ profile_result' = NoneV
    /\ UNCHANGED <<earlyVars, pauseVars, txVars, tailVars>>

get_active_profile ==
    /\ pc = "profiles"
    /\ \E athlete \in {NoneV} \cup {Some(a) : a \in Athletes} :
          /\ profile_request' = [op |-> "get_active_profile", athlete_id |-> athlete]
          /\ IF latest_active(athlete_profile, athlete) = {}
             THEN profile_result' = NoneV
             ELSE \E i \in latest_active(athlete_profile, athlete) :
                     profile_result' = Some(parse_profile_row(athlete_profile[i]))
    /\ UNCHANGED <<earlyVars, pauseVars, txVars, tailVars, athlete_profile>>

InitProfile ==
    /\ pc = "profiles"
    /\ CoreIdle
    /\ EarlyUntouched
    /\ PauseUntouched
    /\ ProfUntouched
    /\ TxUntouched
    /\ TailUntouched

NextProfile == update_profile \/ get_active_profile

SpecProfile == InitProfile /\ [][NextProfile]_vars

-----------------------------------------------------------------------------
(* Concurrent update_profile requests, each in its own transaction *)

\* Each request runs on its own pooled connection at READ COMMITTED: its
\* INSERT is invisible to the others until it commits, its UPDATE sees the
\* rows committed when the statement starts, waits for a row another request
\* has updated and not yet committed, and then skips the row if it no longer
\* has valid_to NULL.  The wall clock advances between the requests.
Requests == 1..MaxRequests

IdleRequest == [phase |-> "idle"]

Tx(t) == profile_txns.tx[t]

\* the rows a request has closed and not yet committed
locked_rows(t) == IF Tx(t).phase = "updated" THEN Tx(t).closed ELSE {}

\* now = datetime.now()
tx_begin(t) ==
    /\ pc = "requests"
    /\ Tx(t).phase = "idle"
    /\ \E payload \in {pl \in ProfilePayloads : pl.athlete_id = "a1"} :
          profile_txns' =
              [clock |-> profile_txns.clock + 1,
               tx |-> [profile_txns.tx EXCEPT ![t] =
                          [phase |-> "started", payload |-> payload,
                           now |-> profile_txns.clock]]]
    /\ UNCHANGED <<earlyVars, pauseVars, profVars, tailVars>>

\* INSERT INTO athlete_profile: the row stays with the request until commit
tx_insert(t) ==
    /\ pc = "requests"
    /\ Tx(t).phase = "started"
    /\ profile_txns' = [profile_txns EXCEPT !.tx[t].phase = "inserted"]
    /\ UNCHANGED <<earlyVars, pauseVars, profVars, tailVars>>

\* the UPDATE starts: the committed rows matching its WHERE clause
tx_update_start(t) ==
    /\ pc = "requests"
    /\ Tx(t).phase = "inserted"
    /\ profile_txns' =
          [profile_txns EXCEPT
              !.tx[t] = [phase |-> "updating", payload |-> Tx(t).payload, now |-> Tx(t).now,
                         targets |-> {i \in DOMAIN athlete_profile :
                                        /\ athlete_profile[i].json_athlete_id
                                              = Tx(t).payload.athlete_id
                                        /\ athlete_profile[i].valid_to = NoneV
                                        /\ athlete_profile[i].valid_from < Tx(t).now}]]
    /\ UNCHANGED <<earlyVars, pauseVars, profVars, tailVars>>

\* the UPDATE ends once no target is held by another request
tx_update_finish(t) ==
    /\ pc = "requests"
    /\ Tx(t).phase = "updating"
    /\ \A u \in Requests \ {t} : Tx(t).targets \cap locked_rows(u) = {}
    /\ profile_txns' =
          [profile_txns EXCEPT
              !.tx[t] = [phase |-> "updated", payload |-> Tx(t).payload, now |-> Tx(t).now,
                         closed |-> {i \in Tx(t).targets :
                                        athlete_profile[i].valid_to = NoneV}]]
    /\ UNCHANGED <<earlyVars, pauseVars, profVars, tailVars>>

\* conn.commit()
tx_commit(t) ==
    /\ pc = "requests"
    /\ Tx(t).phase = "updated"
    /\ athlete_profile' =
          Append([i \in DOMAIN athlete_profile |->
                     IF i \in Tx(t).closed
                     THEN [athlete_profile[i] EXCEPT !.valid_to = Some(Tx(t).now - 1)]
                     ELSE athlete_profile[i]],
                 ProfileRow(Tx(t).payload.athlete_id, Tx(t).now, NoneV, Tx(t).payload.ftp,
                            profile_pace_to_seconds(Tx(t).payload.css_pace_per_100m)))
    /\ profile_txns' = [profile_txns EXCEPT !.tx[t] = [phase |-> "done"]]
    /\ UNCHANGED <<earlyVars, pauseVars, tailVars, profile_request, profile_result>>

\* the athlete has one active profile, written at time 10
InitProfileTx ==
    /\ pc = "requests"
    /\ CoreIdle
    /\ EarlyUntouched
    /\ PauseUntouched
    /\ athlete_profile = <<ProfileRow("a1", 10, NoneV, 250, 100)>>
    /\ profile_request = [op |-> "none"]
    /\ profile_result = <<>>
    /\ profile_txns = [clock |-> 20, tx |-> [t \in Requests |-> IdleRequest]]
    /\ TailUntouched

NextProfileTx ==
    \E t \in Requests :
        \/ tx_begin(t)
        \/ tx_insert(t)
        \/ tx_update_start(t)
        \/ tx_update_finish(t)
        \/ tx_commit(t)

SpecProfileTx == InitProfileTx /\ [][NextProfileTx]_vars

-----------------------------------------------------------------------------
(* A date directory: process_downloaded_files *)

\* One workout of the directory: the sport its TCX names, its files, and its
\* _processed.json once written.  profile.json holds the athlete's name and,
\* under "zones", the heart-rate table and the bike_power and run_power
\* sections; a section is <<>> when the file has no such key.
WorkoutFiles(sport, files) == [sport |-> sport, files |-> files, processed_json |-> NoneV]
BikeSection(ftp, table) == Some([ftp |-> ftp, zones |-> table])
RunSection(critical_power, table) == Some([critical_power |-> critical_power, zones |-> table])
ProfileJson(athlete, hr_table, bike_power, run_power) ==
    [athlete_id |-> athlete,
     zones |-> [heart_rate |-> hr_table, bike_power |-> bike_power, run_power |-> run_power]]

\* the outcome of a call: the exception leaving it, if any, and the value returned
Returned(value) == [raised |-> NoneV, value |-> value]
Raised(exception) == [raised |-> Some(exception), value |-> NoMetrics]

\* pd.DataFrame(trackpoints) with the timestamp column read by pd.to_datetime;
\* every timestamp here carries the same UTC offset
as_rows(entries) ==
    [i \in DOMAIN entries |->
        LET f == entries[i].fields
            col(name) == IF name \in DOMAIN f THEN Some(f[name]) ELSE NoneV
        IN  Tp(Val(entries[i].timestamp).wall, col("heart_rate"), col("power"), col("Power"))]

\* profile.get('zones', {}).get(key, {}).get('zones', {}) and the baselines, as
\* the calculators read them from the dict loaded from profile.json
profile_view(pj) ==
    [ftp |-> IF IsSome(pj.zones.bike_power) THEN Val(pj.zones.bike_power).ftp ELSE NoneV,
     critical_power |-> IF IsSome(pj.zones.run_power)
                        THEN Val(pj.zones.run_power).critical_power ELSE NoneV,
     css |-> NoneV,
     hr_zones |-> pj.zones.heart_rate,
     bike_zones |-> IF IsSome(pj.zones.bike_power)
                    THEN Val(pj.zones.bike_power).zones ELSE NoZones,
     run_zones |-> IF IsSome(pj.zones.run_power)
                   THEN Val(pj.zones.run_power).zones ELSE NoZones]

\* calculate_workout_metrics on the dict of profile.json:
\* profile["zones"]["bike_power"] and profile["zones"]["run_power"] are
\* subscripted, so a missing section raises KeyError
metrics_outcomes(wtype, trackpoints, pj) ==
    IF wtype = "bike" /\ ~IsSome(pj.zones.bike_power) THEN {Raised("KeyError")}
    ELSE IF wtype = "run" /\ ~IsSome(pj.zones.run_power) THEN {Raised("KeyError")}
    ELSE {Returned(m) : m \in workout_metrics(wtype, as_rows(trackpoints), NoneV,
                                              profile_view(pj))}

\* processed_data["data"]: merged if merged is not None else trackpoints
\* (the FIT files here carry no workout steps, so map_targets_to_timestamps
\* returns the trackpoints as they are)
activity_data(files) ==
    LET stored      == power_json_after(files)
        trackpoints == parse_tcx_file(files.tcx)
    IN  IF IsSome(stored) /\ Val(stored) # <<>>
        THEN merge_power_into_tcx(trackpoints, Val(stored))
        ELSE trackpoints

\* the dict handed from step to step of the loop body
Record(athlete, wtype, trackpoints, m, zones) ==
    [athlete_id |-> athlete, workout_type |-> wtype, data |-> trackpoints,
     metrics |-> m, zone_analysis |-> zones]

Pipe(stage, cursor, prof, rec, at_start) ==
    [stage |-> stage, cursor |-> cursor, profile |-> prof, processed_data |-> rec,
     at_start |-> at_start]

\* the for loop moves on to the next TCX file, or the function returns
next_workout(k) ==
    IF k < Len(date_dir)
    THEN Pipe("activity", k + 1, pipeline.profile, NoneV, <<>>)
    ELSE Pipe("finished", k, pipeline.profile, NoneV, <<>>)

\* profile = load_json_data(profile_path); if not profile: return
begin_processing ==
    /\ pc = "profiles"
    /\ pipeline.stage = "idle"
    /\ pipeline' = IF IsSome(profile_json) /\ date_dir # <<>>
                   THEN Pipe("activity", 1, profile_json, NoneV, <<>>)
                   ELSE Pipe("finished", 0, profile_json, NoneV, <<>>)
    /\ pc' = "date_dir"
    /\ UNCHANGED <<workout_type, data, csv_file, profile, metrics, zone_analysis,
                   zone_source, sorted_df, agent_reply, target_info, enhanced>>
    /\ UNCHANGED <<swimVars, pmcVars, mergeVars, dirVars, pauseVars, profVars, txVars,
                   syncVars, date_dir, profile_json>>

\* processed_data = process_activity_files(tcx_path, date_dir): the power
\* series is saved and the ZIP deleted, then the active profile is fetched
\* (no profile: None, and the loop continues)
loop_process_activity_files ==
    /\ pc = "date_dir"
    /\ pipeline.stage = "activity"
    /\ LET k     == pipeline.cursor
           files == date_dir[k].files
           found == latest_active(athlete_profile, NoneV)
       IN  /\ date_dir' = [date_dir EXCEPT
                              ![k].files = [files EXCEPT !.zip = NoneV,
                                                         !.power_json = power_json_after(files)]]
           /\ IF found = {}
              THEN pipeline' = next_workout(k)
              ELSE \E i \in found :
                      pipeline' =
                          Pipe("metrics", k, pipeline.profile,
                               Some(Record(athlete_profile[i].json_athlete_id,
                                           date_dir[k].sport, activity_data(files),
                                           NoMetrics, NoneV)),
                               date_dir)
    /\ UNCHANGED <<earlyVars, pauseVars, profVars, txVars, syncVars, profile_json>>

\* processed_data = calculate_workout_metrics(processed_data, profile), outside
\* any try: an exception ends process_downloaded_files
loop_calculate_workout_metrics ==
    /\ pc = "date_dir"
    /\ pipeline.stage = "metrics"
    /\ LET rec == Val(pipeline.processed_data)
       IN  \E out \in metrics_outcomes(rec.workout_type, rec.data, Val(pipeline.profile)) :
              pipeline' =
                  IF IsSome(out.raised)
                  THEN [pipeline EXCEPT !.stage = "raised"]
                  ELSE [pipeline EXCEPT !.stage = "zones",
                                        !.processed_data = Some([rec EXCEPT !.metrics = out.value])]
    /\ UNCHANGED <<earlyVars, pauseVars, profVars, txVars, syncVars, date_dir, profile_json>>

\* processed_data = calculate_zone_metrics(processed_data, profile)
loop_calculate_zone_metrics ==
    /\ pc = "date_dir"
    /\ pipeline.stage = "zones"
    /\ LET rec == Val(pipeline.processed_data)
       IN  IF rec.data = <<>>
           THEN pipeline' = [pipeline EXCEPT !.stage = "save"]
           ELSE \E reply \in AgentReplies :
                   \E r \in analyze_workout_zones(as_rows(rec.data),
                                                  profile_view(Val(pipeline.profile)),
                                                  rec.workout_type, reply) :
                      pipeline' =
                          [pipeline EXCEPT
                              !.stage = "save",
                              !.processed_data =
                                  Some([rec EXCEPT
                                           !.zone_analysis =
                                               IF r[3] = Raise THEN Some(EmptyZoneAnalysis)
                                               ELSE r[3]])]
    /\ UNCHANGED <<earlyVars, pauseVars, profVars, txVars, syncVars, date_dir, profile_json>>

\* save_json_data(processed_data, processed_json_file): True, or False when the
\* write fails; either way the loop goes on
loop_save ==
    /\ pc = "date_dir"
    /\ pipeline.stage = "save"
    /\ \E written \in BOOLEAN :
          date_dir' = IF written
                      THEN [date_dir EXCEPT
                               ![pipeline.cursor].processed_json = pipeline.processed_data]
                      ELSE date_dir
    /\ pipeline' = next_workout(pipeline.cursor)
    /\ UNCHANGED <<earlyVars, pauseVars, profVars, txVars, syncVars, profile_json>>

PipeTcx ==
    <<Trackpoint(TS(0, "Z"), [heart_rate |-> 125]),
      Trackpoint(TS(4000, "Z"), [heart_rate |-> 140])>>
\* the FIT records' timestamps, written by isoformat() without an offset
PipePower ==
    <<Entry(TS(0, ""), [power |-> 200]), Entry(TS(4000, ""), [power |-> 250])>>
PipeZip == Zip(Some(Fit(PipePower, <<>>)))

WorkoutKinds ==
    {WorkoutFiles("bike", Dir(PipeTcx, PipeZip, NoneV)),
     WorkoutFiles("bike", Dir(PipeTcx, NoneV, NoneV)),
     WorkoutFiles("run", Dir(PipeTcx, PipeZip, NoneV))}

FullProfileJson ==
    ProfileJson("a1", HrTwoZones, BikeSection(Some(250), BikePower),
                RunSection(Some(300), RunPowerOverlap))
\* a profile.json without the run_power section
BikeOnlyProfileJson ==
    ProfileJson("a1", HrTwoZones, BikeSection(Some(250), BikePower), NoneV)
ProfileJsons == {NoneV, Some(FullProfileJson), Some(BikeOnlyProfileJson)}

\* the profile row seeded from profile.json
SeededProfile == ProfileRow("a1", 10, NoneV, 250, 100)

InitPipeline ==
    /\ pc = "profiles"
    /\ CoreIdle
    /\ EarlyUntouched
    /\ PauseUntouched
    /\ athlete_profile \in {<<>>, <<SeededProfile>>}
    /\ profile_request = [op |-> "none"]
    /\ profile_result = <<>>
    /\ TxUntouched
    /\ date_dir \in SeqsUpTo(WorkoutKinds, MaxDir)
    /\ profile_json \in ProfileJsons
    /\ pipeline = Pipe("idle", 0, NoneV, NoneV, <<>>)
    /\ SyncUntouched

NextPipeline ==
    \/ begin_processing
    \/ loop_process_activity_files
    \/ loop_calculate_workout_metrics
    \/ loop_calculate_zone_metrics
    \/ loop_save

SpecPipeline == InitPipeline /\ [][NextPipeline]_vars

\* the profile is edited through the API any number of times, then a directory
\* with one bike workout is processed
InitPipelineProfile ==
    /\ pc = "profiles"
    /\ CoreIdle
    /\ EarlyUntouched
    /\ PauseUntouched
    /\ athlete_profile = <<SeededProfile>>
    /\ profile_request = [op |-> "none"]
    /\ profile_result = <<>>
    /\ TxUntouched
    /\ date_dir \in {<<w>> : w \in {k \in WorkoutKinds : k.sport = "bike"}}
    /\ profile_json = Some(FullProfileJson)
    /\ pipeline = Pipe("idle", 0, NoneV, NoneV, <<>>)
    /\ SyncUntouched

NextPipelineProfile == update_profile \/ NextPipeline

SpecPipelineProfile == InitPipelineProfile /\ [][NextPipelineProfile]_vars

-----------------------------------------------------------------------------
(* Syncing processed workouts to the database: services/sync.py *)

\* One _processed.json of a day's workout directory: its activity_id and its
\* start_time (a later start is a larger number).  sync_files[d] lists the
\* files of the day d - 1 days before today, in glob order.  The runs work for
\* the one seeded athlete.
ProcessedFile(activity_id, start_time) ==
    [activity_id |-> activity_id, start_time |-> start_time]

SyncRuns == 1..MaxSyncRuns

IdleRun ==
    [kind |-> "none", phase |-> "idle", delta |-> 0, file |-> 0, sync_timestamp |-> NoneV,
     inserted_any |-> FALSE, latest_ts |-> NoneV]

\* SELECT 1 FROM workout WHERE athlete_id = .. AND json_file->>'activity_id' = ..
check_record_exists(rows, activity_id) ==
    \E i \in DOMAIN rows : rows[i].activity_id = activity_id

\* Workout.insert: a row with a fresh uuid4 id; the table accepts any number
\* of rows of one activity
insert_workout(rows, f) ==
    Append(rows, [activity_id |-> f.activity_id, timestamp |-> f.start_time])

\* the first directory of a run, and the directory after the one just synced:
\* inserted_any = False, latest_ts = sync_timestamp
enter_directory(run, delta) ==
    [run EXCEPT !.phase = "check", !.delta = delta, !.file = 1,
                !.inserted_any = FALSE, !.latest_ts = run.sync_timestamp]

\* no other run is under way
Alone(r) == \A q \in SyncRuns \ {r} : sync_runs[q].phase \in {"idle", "done"}

\* pc "sync": the runs are called one after the other; pc "sync_threads": the
\* startup thread, the hourly thread and /sync tasks run side by side
MayStart(r) == pc = "sync_threads" \/ (pc = "sync" /\ Alone(r))
Syncing == pc \in {"sync", "sync_threads"}

\* sync_last_n_days: every directory is synced with sync_timestamp None
sync_last_n_days(r) ==
    /\ MayStart(r)
    /\ sync_runs[r].phase = "idle"
    /\ sync_runs' =
          [sync_runs EXCEPT
              ![r] = enter_directory([IdleRun EXCEPT !.kind = "sync_last_n_days"], 1)]
    /\ UNCHANGED <<earlyVars, pauseVars, profVars, txVars, pipeVars,
                   sync_files, workout_table, sync_table>>

\* sync_since_last_entry: workout_last_ts is read once, before the loop
sync_since_last_entry(r) ==
    /\ MayStart(r)
    /\ sync_runs[r].phase = "idle"
    /\ sync_runs' =
          [sync_runs EXCEPT
              ![r] = enter_directory([IdleRun EXCEPT !.kind = "sync_since_last_entry",
                                                     !.sync_timestamp = sync_table], 1)]
    /\ UNCHANGED <<earlyVars, pauseVars, profVars, txVars, pipeVars,
                   sync_files, workout_table, sync_table>>

\* process_single_workout_file up to the duplicate check: a file not newer
\* than sync_timestamp or already stored is skipped
check_workout_file(r) ==
    /\ Syncing
    /\ sync_runs[r].phase = "check"
    /\ sync_runs[r].file <= Len(sync_files[sync_runs[r].delta])
    /\ LET run == sync_runs[r]
           f   == sync_files[run.delta][run.file]
       IN  sync_runs' =
              [sync_runs EXCEPT
                  ![r] = IF \/ IsSome(run.sync_timestamp)
                               /\ f.start_time <= Val(run.sync_timestamp)
                            \/ check_record_exists(workout_table, f.activity_id)
                         THEN [run EXCEPT !.file = run.file + 1]
                         ELSE [run EXCEPT !.phase = "insert"]]
    /\ UNCHANGED <<earlyVars, pauseVars, profVars, txVars, pipeVars,
                   sync_files, workout_table, sync_table>>

\* workout.insert(conn); conn.commit(); return record_ts, and the caller's
\* inserted_any = True; if not latest_ts or record_ts > latest_ts: latest_ts = record_ts
insert_workout_file(r) ==
    /\ Syncing
    /\ sync_runs[r].phase = "insert"
    /\ LET run == sync_runs[r]
           f   == sync_files[run.delta][run.file]
       IN  /\ workout_table' = insert_workout(workout_table, f)
           /\ sync_runs' =
                 [sync_runs EXCEPT
                     ![r] = [run EXCEPT
                                !.phase = "check", !.file = run.file + 1,
                                !.inserted_any = TRUE,
                                !.latest_ts =
                                    IF ~IsSome(run.latest_ts)
                                          \/ f.start_time > Val(run.latest_ts)
                                    THEN Some(f.start_time) ELSE run.latest_ts]]
    /\ UNCHANGED <<earlyVars, pauseVars, profVars, txVars, pipeVars, sync_files, sync_table>>

\* the end of sync_processed_workouts_to_db: if update_sync and inserted_any
\* and latest_ts: update_sync_timestamp(athlete_uuid, 'workout', latest_ts);
\* then the day before, or the end of the run
finish_directory(r) ==
    /\ Syncing
    /\ sync_runs[r].phase = "check"
    /\ sync_runs[r].file > Len(sync_files[sync_runs[r].delta])
    /\ LET run == sync_runs[r]
       IN  /\ sync_table' = IF run.inserted_any /\ IsSome(run.latest_ts)
                            THEN run.latest_ts ELSE sync_table
           /\ sync_runs' =
                 [sync_runs EXCEPT
                     ![r] = IF run.delta < SyncDays
                            THEN enter_directory(run, run.delta + 1)
                            ELSE [run EXCEPT !.phase = "done"]]
    /\ UNCHANGED <<earlyVars, pauseVars, profVars, txVars, pipeVars,
                   sync_files, workout_table>>

\* the workouts a day directory may hold; day d's workouts start after those
\* of the day before
DayFiles(d) ==
    LET base == (SyncDays + 1 - d) * 10
    IN  {<<>>,
         <<ProcessedFile(1000 + base + 1, base + 1)>>,
         <<ProcessedFile(1000 + base + 2, base + 2), ProcessedFile(1000 + base + 1, base + 1)>>}

SyncInputs ==
    /\ CoreIdle
    /\ EarlyUntouched
    /\ PauseUntouched
    /\ ProfUntouched
    /\ TxUntouched
    /\ PipeUntouched
    /\ sync_files \in {fs \in [1..SyncDays -> UNION {DayFiles(d) : d \in 1..SyncDays}] :
                          \A d \in 1..SyncDays : fs[d] \in DayFiles(d)}
    /\ workout_table = <<>>
    /\ sync_table = NoneV
    /\ sync_runs = [r \in SyncRuns |-> IdleRun]

InitSync == pc = "sync" /\ SyncInputs

InitSyncConcurrent == pc = "sync_threads" /\ SyncInputs

NextSync ==
    \E r \in SyncRuns :
        \/ sync_last_n_days(r)
        \/ sync_since_last_entry(r)
        \/ check_workout_file(r)
        \/ insert_workout_file(r)
        \/ finish_directory(r)

SpecSync == InitSync /\ [][NextSync]_vars

SpecSyncConcurrent == InitSyncConcurrent /\ [][NextSync]_vars

-----------------------------------------------------------------------------
(* PMC queries: api/main.py get_pmc_metrics *)

\* days of GET /api/metrics/pmc when no range is given
DefaultDays == 30

\* date.today() as the request before read it; the days do not go backwards
LastToday ==
    IF "today" \in DOMAIN pmc_request THEN pmc_request.today
    ELSE CHOOSE d \in TargetDates : \A e \in TargetDates : d <= e

\* one element of PMCResponse.metrics
PMCMetricData(day, m) == [date |-> day, ctl |-> m.ctl, atl |-> m.atl, tsb |-> m.tsb]

\* get_pmc_data: SELECT date, ctl, atl, tsb FROM daily_metrics
\* WHERE athlete_id = .. AND date >= start AND date <= end
get_pmc_data(athlete, start, end) ==
    {PMCMetricData(r.date, r) :
        r \in {x \in daily_metrics :
                  x.athlete_id = athlete /\ x.date >= start /\ x.date <= end}}

\* GET /api/metrics/pmc: the stored rows of the range; only when there is none
\* are today's metrics calculated, saved and returned
get_pmc_metrics(athlete, start, end, today) ==
    /\ pc = "pmc_api"
    /\ today >= LastToday
    /\ pmc_request' = [op |-> "get_pmc_metrics", athlete_id |-> athlete,
                       start_date |-> start, end_date |-> end, today |-> today]
    /\ LET pmc_data == get_pmc_data(athlete, start, end)
           today_metrics ==
               pmc_values("metrics",
                          get_workouts_for_athlete(athlete, today - CTL_DECAY_DAYS, today),
                          today)
       IN  IF pmc_data # {}
           THEN /\ pmc_result' = [kind |-> "PMCResponse", metrics |-> pmc_data]
                /\ daily_metrics' = daily_metrics
           ELSE /\ pmc_result' = [kind |-> "PMCResponse",
                                  metrics |-> {PMCMetricData(today, today_metrics)}]
                /\ daily_metrics' = upsert(daily_metrics, athlete, today, today_metrics)
    /\ UNCHANGED <<coreVars, swimVars, mergeVars, dirVars, lateVars, workouts>>

\* no start_date / end_date: end = date.today(), start = end - timedelta(days)
get_pmc_metrics_default(athlete, today) ==
    get_pmc_metrics(athlete, today - DefaultDays, today, today)

\* the athlete whose chart is asked for, the workouts of day 100 the sync
\* may insert meanwhile, and what the table may hold before
PmcAthletes == {"a1"}
SyncedWorkouts ==
    {WorkoutRow("a1", 100, 0, Some(100)),
     WorkoutRow("a1", 100, 36000, Some(50))}
StoredBefore == {{}, {WorkoutRow("a1", 99, 0, Some(120))}}

\* Workout.insert by a sync run
store_workout ==
    /\ pc = "pmc_api"
    /\ Cardinality(workouts) < MaxWorkouts
    /\ \E w \in SyncedWorkouts \ workouts : workouts' = workouts \cup {w}
    /\ UNCHANGED <<coreVars, swimVars, mergeVars, dirVars, lateVars,
                   daily_metrics, pmc_request, pmc_result>>

\* the ranges asked for; each covers day 100, as the default range does
PmcRanges == {<<100, 100>>, <<100, 101>>}

InitPmcApi ==
    /\ pc = "pmc_api"
    /\ CoreIdle
    /\ SwimUntouched
    /\ MergeUntouched
    /\ DirUntouched
    /\ LateUntouched
    /\ workouts \in StoredBefore
    /\ daily_metrics = {}
    /\ pmc_request = [op |-> "none"]
    /\ pmc_result = [kind |-> "none"]

\* a query of the chart, whatever its range
ask_pmc ==
    \E athlete \in PmcAthletes, today \in TargetDates :
        \/ get_pmc_metrics_default(athlete, today)
        \/ \E range \in PmcRanges : get_pmc_metrics(athlete, range[1], range[2], today)

NextPmcApi == store_workout \/ ask_pmc

\* the chart keeps being asked for
PmcApiFairness == WF_vars(ask_pmc)

SpecPmcApi == InitPmcApi /\ [][NextPmcApi]_vars /\ PmcApiFairness

-----------------------------------------------------------------------------
(* Properties of the TSS calculators *)


SetMax(S) == CHOOSE x \in S : \A y \in S : y <= x

\* c is an integer nearest to the fraction p
Nearest(c, p) == 2 * Abs(c * p[2] - p[1]) <= p[2]

\* the power key the TSS of this sport reads
PowerKey(wtype, tps) ==
    IF wtype = "run" /\ HasColumn(tps, "Power") THEN "Power" ELSE "power"

Carrying(tps, key) == {i \in DOMAIN tps : IsSome(tps[i][key])}

\* sum of the gaps shorter than limit between neighbouring instants of T
GapSum(T, limit) ==
    LET gap(t) == LET below == {u \in T : u < t}
                  IN  IF below = {} THEN 0
                      ELSE IF t - SetMax(below) < limit THEN t - SetMax(below) ELSE 0
    IN  SetSum(gap, T)

Threshold(wtype, prof) == IF wtype = "bike" THEN prof.ftp ELSE prof.critical_power

PowerTssCase ==
    /\ pc = "metrics"
    /\ workout_type \in {"bike", "run"}
    /\ IsSome(Threshold(workout_type, profile))
    /\ Val(Threshold(workout_type, profile)) > 0
    /\ Carrying(data, PowerKey(workout_type, data)) # {}

\* C1: for a bike (run) workout with FTP (critical power) > 0 and a trackpoint
\* carrying power, tss is duration_hr * (mean(power) / threshold)^2 * 100 rounded
\* to 2 decimals, the mean taken over the trackpoints that carry power and the
\* moving time measured over those same trackpoints; duration_sec is the moving
\* time in whole seconds and duration_hr has 4 decimals.  One hour at a constant
\* 250 W with FTP 250 gives tss 100.00, duration_sec 3600 and duration_hr 1.0000.
C1_PowerTss ==
    /\ (PowerTssCase /\ data # HourRide) =>
         LET key    == PowerKey(workout_type, data)
             rows   == Carrying(data, key)
             watts(i) == Val(data[i][key])
             mov    == GapSum({data[i].timestamp : i \in rows}, 5000)
             ratio  == Rat(SetSum(watts, rows),
                           Cardinality(rows) * Val(Threshold(workout_type, profile)))
             exact  == RatMul(Rat(mov, 360), RatMul(ratio, ratio))
         IN  /\ IsSome(metrics.tss)
             /\ Nearest(Val(metrics.tss), exact)
             /\ metrics.duration_sec = Some(mov \div 1000)
             /\ Nearest(Val(metrics.duration_hr), Rat(mov, 360))
    /\ (pc = "metrics" /\ data = HourRide /\ profile.ftp = Some(250)) =>
         metrics = [tss |-> Some(10000), duration_sec |-> Some(3600),
                    duration_hr |-> Some(10000)]

C1_Witness ==
    /\ pc = "metrics"
    /\ data = HourRide
    /\ profile.ftp = Some(250)
    /\ metrics.tss = Some(10000)

\* the baseline of the sport is None, zero, or (swim) no pace of positive length
BaselineUnset(wtype, prof) ==
    IF wtype \in {"bike", "run"}
    THEN ~IsSome(Threshold(wtype, prof)) \/ Val(Threshold(wtype, prof)) = 0
    ELSE \/ ~IsSome(prof.css)
         \/ Len(Val(prof.css)) # 2
         \/ \E k \in 1..2 : ~IntOk(Val(prof.css)[k])
         \/ Val(Val(prof.css)[1]) + Val(Val(prof.css)[2]) = 0

SummaryRows(rows) == {i \in DOMAIN rows : StripLower(rows[i].Split) = "summary"}
TheSummary(rows) == rows[SetMax(SummaryRows(rows))]
CssSeconds(prof) == (Val(Val(prof.css)[1]) * 60 + Val(Val(prof.css)[2])) \div 1000

\* the split export gives nothing to compute a swim TSS from
SwimNotComputable(rows) ==
    \/ SummaryRows(rows) = {}
    \/ ~IsSome(TheSummary(rows).Distance)
    \/ parse_time_to_seconds(TheSummary(rows).Time) = 0

C3_MovingTimeOverAllTrackpoints ==
    (PowerTssCase /\ data # HourRide) =>
        metrics.duration_sec =
            Some(GapSum({data[i].timestamp : i \in DOMAIN data}, 5000) \div 1000)

SwimCase == pc = "metrics" /\ workout_type = "swim" /\ IsSome(csv_file)

\* the export's last Summary row says distance d and time t, and CSS is 1:40
SwimExample(d, t) ==
    /\ SwimCase
    /\ profile.css = Some(<< <<1000>>, <<40000>> >>)
    /\ SummaryRows(Val(csv_file)) # {}
    /\ TheSummary(Val(csv_file)).Distance = Some(d)
    /\ TheSummary(Val(csv_file)).Time = t

\* sTSS = round(IF^3 * duration_hr * 100, 2) from the last Summary row alone,
\* with IF = (Distance / time_min) / (100 / (css_seconds / 60))
SwimTssFromSummary ==
    LET row   == TheSummary(Val(csv_file))
        t     == parse_time_to_seconds(row.Time)
        IF_   == Rat(10 * Val(row.Distance) * CssSeconds(profile), t)
        exact == RatMul(RatMul(RatMul(IF_, IF_), IF_), Rat(t, 360))
    IN  /\ IsSome(metrics.tss)
        /\ Nearest(Val(metrics.tss), exact)

\* C4 as stated: None exactly when CSS is unset, there is no (usable) Summary
\* row or its time is zero, else the sTSS of the Summary row; Distance 1000,
\* Time 16:40 and CSS 1:40 give 100.00.
C4_Original ==
    /\ SwimCase =>
         IF BaselineUnset("swim", profile) \/ SwimNotComputable(Val(csv_file))
         THEN metrics = NoMetrics
         ELSE metrics # NoMetrics
    /\ SwimExample(1000, << <<16000>>, <<40000>> >>) => metrics.tss = Some(10000)

\* C4, amended: calculate_tss_swim returns (None, None, None) exactly when CSS
\* is unset or no m:ss pace of positive length, there is no Summary row, the
\* Summary distance is no number, or the Summary time parses to zero; otherwise
\* it returns sTSS = round(IF^3 * duration_hr * 100, 2) computed from the last
\* Summary row only.  Distance 1000, Time 16:40 and CSS 1:40 give IF = 1 and
\* sTSS = 27.78 (0.2778 h); Distance 3600, Time 1:00:00 and CSS 1:40 give 100.00.
C4_SwimTss ==
    /\ SwimCase =>
         IF BaselineUnset("swim", profile) \/ SwimNotComputable(Val(csv_file))
         THEN metrics = NoMetrics
         ELSE SwimTssFromSummary
    /\ SwimExample(1000, << <<16000>>, <<40000>> >>) =>
         metrics = [tss |-> Some(2778), duration_sec |-> Some(1000),
                    duration_hr |-> Some(2778)]
    /\ SwimExample(3600, << <<1000>>, <<0>>, <<0>> >>) => metrics.tss = Some(10000)

\* the example, with a split row in front of the Summary row
C4_Witness ==
    /\ SwimExample(1000, << <<16000>>, <<40000>> >>)
    /\ Len(Val(csv_file)) = 2
    /\ Val(csv_file)[1].Split = "1"
    /\ metrics.tss = Some(2778)

-----------------------------------------------------------------------------
(* Properties of the zone binning *)

FallbackResult == pc = "zones" /\ zone_source = "fallback" /\ data # <<>>

\* the table gives zone z a range that holds the value
Contains(table, z, value) ==
    \E k \in DOMAIN table :
        /\ table[k].zone = z
        /\ IsSome(table[k].lower) /\ IsSome(table[k].upper)
        /\ Val(table[k].lower) <= value /\ value <= Val(table[k].upper)

\* the first zone, in the order z1, z2, zx, z3, zy, z4, z5, that holds the value
FirstZone(table, value) ==
    LET holding == {j \in DOMAIN AllZones : Contains(table, AllZones[j], value)}
    IN  IF holding = {} THEN NoneV
        ELSE Some(AllZones[CHOOSE j \in holding : \A h \in holding : j <= h])

\* the zone table a metric is binned against; <<>> when the metric is not binned
TableOf(metric) ==
    IF metric = "heart_rate" THEN profile.hr_zones
    ELSE IF workout_type = "bike" THEN profile.bike_zones
    ELSE IF workout_type = "run" THEN profile.run_zones
    ELSE <<>>

\* the full delta of row i of the sorted sequence to the row before it
DeltaToPrevious(i) ==
    IF i = 1 THEN 0 ELSE sorted_df[i].timestamp - sorted_df[i - 1].timestamp

\* the time of the rows whose value of the metric falls first into zone z
ZoneTime(metric, z) ==
    LET rows == {i \in DOMAIN sorted_df :
                    /\ IsSome(sorted_df[i][metric])
                    /\ FirstZone(TableOf(metric), Val(sorted_df[i][metric])) = Some(z)}
    IN  SetSum(DeltaToPrevious, rows)

\* the time of the rows whose value is null or falls into no zone
Unattributed(metric) ==
    LET rows == {i \in DOMAIN sorted_df :
                    \/ ~IsSome(sorted_df[i][metric])
                    \/ FirstZone(TableOf(metric), Val(sorted_df[i][metric])) = NoneV}
    IN  SetSum(DeltaToPrevious, rows)

Reported(metric) ==
    IF metric = "heart_rate" THEN Val(zone_analysis).heart_rate_zones
    ELSE Val(zone_analysis).power_zones

ReportedSum(metric) ==
    LET r(k) == Reported(metric)[k] IN SetSum(r, ZoneKeys)

\* sorted_df holds the trackpoints of data in ascending order of timestamp
IsSortedData ==
    /\ Len(sorted_df) = Len(data)
    /\ \A i \in 1..(Len(sorted_df) - 1) : sorted_df[i].timestamp <= sorted_df[i + 1].timestamp
    /\ \A i \in DOMAIN data :
          Cardinality({j \in DOMAIN data : data[j] = data[i]})
              = Cardinality({j \in DOMAIN sorted_df : sorted_df[j] = data[i]})

\* C5: in get_fallback_zone_analysis every trackpoint with a non-null value of
\* a binned metric (heart rate; power for bike and run) credits the full delta
\* to the previous trackpoint of the sorted sequence, whatever its length, to
\* the first zone in the order z1, z2, zx, z3, zy, z4, z5 whose range [lower,
\* upper] holds the value, and to no zone when none does: each reported zone
\* total is the rounded sum of exactly those deltas.
C5_ZoneBinning ==
    FallbackResult =>
        /\ IsSortedData
        /\ \A metric \in {"heart_rate", "power"} : \A j \in DOMAIN AllZones :
              Nearest(Reported(metric)[MinutesKey[AllZones[j]]],
                      Rat(ZoneTime(metric, AllZones[j]), 600))

\* a reading of 140 in both z1 and z2, 7 s or more after the previous
\* trackpoint, was credited to z1 alone
C5_Witness ==
    /\ FallbackResult
    /\ profile.hr_zones = HrOverlap
    /\ \E i \in DOMAIN sorted_df :
          sorted_df[i].heart_rate = Some(140) /\ DeltaToPrevious(i) >= 7000
    /\ Reported("heart_rate")["z1_minutes"] >= 12
    /\ Reported("heart_rate")["z2_minutes"] = 0

HrScenarioCase ==
    FallbackResult /\ data = HrScenario /\ profile.hr_zones = HrTwoZones

\* C6 as stated: the series 125, 130, 135, 140 at 1 s spacing with z1 = [120,
\* 139] and z2 = [140, 159] credits z1 with 3 s (0.05 min) and z2 with 1 s (0.02).
C6_Original ==
    HrScenarioCase =>
        /\ Reported("heart_rate")["z1_minutes"] = 5
        /\ Reported("heart_rate")["z2_minutes"] = 2

\* C6, amended: that series credits z1 with 2 s (0.03 min: the first trackpoint
\* has no previous trackpoint and brings no time) and z2 with 1 s (0.02 min);
\* the other zones get 0 and total_duration_minutes is 0.05.
C6_HrScenario ==
    HrScenarioCase =>
        /\ Reported("heart_rate") =
              [k \in ZoneKeys |-> IF k = "z1_minutes" THEN 3
                                  ELSE IF k = "z2_minutes" THEN 2 ELSE 0]
        /\ Val(zone_analysis).total_duration_minutes = 5

C6_Witness == HrScenarioCase /\ Reported("heart_rate")["z1_minutes"] = 3

\* C7 as stated (its last part): the seven reported zone-minute totals of a
\* metric never sum to more than total_duration_minutes.
C7_Original ==
    FallbackResult =>
        \A metric \in {"heart_rate", "power"} :
            ReportedSum(metric) <= Val(zone_analysis).total_duration_minutes

\* C7, amended: total_duration_minutes is the elapsed time from the first to
\* the last trackpoint, rounded; for each metric the seven reported zone totals
\* plus the unattributed time equal that elapsed time up to the rounding of the
\* seven totals (0.005 min each), so their sum exceeds total_duration_minutes
\* by at most 0.04 min.
C7_ZoneTimeConservation ==
    FallbackResult =>
        LET elapsed == sorted_df[Len(sorted_df)].timestamp - sorted_df[1].timestamp
        IN  /\ Nearest(Val(zone_analysis).total_duration_minutes, Rat(elapsed, 600))
            /\ \A metric \in {"heart_rate", "power"} :
                  /\ Abs(600 * ReportedSum(metric) + Unattributed(metric) - elapsed) <= 2100
                  /\ ReportedSum(metric) <= Val(zone_analysis).total_duration_minutes + 4

\* 1 s in z1 (0.02) and 7 s in z2 (0.12) of 8 s elapsed (0.13)
C7_Witness ==
    /\ FallbackResult
    /\ Reported("heart_rate")["z1_minutes"] = 2
    /\ Reported("heart_rate")["z2_minutes"] = 12
    /\ Val(zone_analysis).total_duration_minutes = 13

-----------------------------------------------------------------------------
(* Properties of calculate_zone_metrics *)

\* C8: after calculate_zone_metrics on a workout with trackpoints the record
\* has a zone_analysis whose heart_rate_zones and power_zones hold all seven
\* zone keys, with total_duration_minutes and zones_available, whatever the
\* agent replied.
C8_ZoneSchema ==
    (pc = "zones" /\ data # <<>>) =>
        /\ IsSome(zone_analysis)
        /\ required_keys \subseteq DOMAIN Val(zone_analysis)
        /\ ZoneKeys \subseteq DOMAIN Val(zone_analysis).heart_rate_zones
        /\ ZoneKeys \subseteq DOMAIN Val(zone_analysis).power_zones

-----------------------------------------------------------------------------
(* Properties of map_targets_to_timestamps *)

Mapped == pc = "mapped"

WorkoutSteps == IF IsSome(target_info) THEN Val(target_info).workout_steps ELSE <<>>

IsTimeStep(k) ==
    WorkoutSteps[k].duration_type = "time" /\ IsSome(WorkoutSteps[k].duration_value)
IsOpenStep(k) == WorkoutSteps[k].duration_type = "open"

\* the summed durations of the Time steps before step k
CumulativeBefore(k) ==
    LET d(j) == Val(WorkoutSteps[j].duration_value)
    IN  SetSum(d, {j \in 1..(k - 1) : IsTimeStep(j)})

\* time of trackpoint i since the first trackpoint of the list
Elapsed(i) == data[i].timestamp - data[1].timestamp

Qualifies(k, e) ==
    \/ /\ IsTimeStep(k)
       /\ CumulativeBefore(k) <= e
       /\ e < CumulativeBefore(k) + Val(WorkoutSteps[k].duration_value)
    \/ IsOpenStep(k) /\ e >= CumulativeBefore(k)

Added(i) == enhanced[i].added
Owned(i) == "workout_step_index" \in DOMAIN Added(i)
Owner(i) == WorkoutSteps[Added(i).workout_step_index + 1]

\* C9: map_targets_to_timestamps annotates a trackpoint with step s iff s is
\* the first step that is a Time step with cumulative_time <= elapsed <
\* cumulative_time + duration, or an Open step with elapsed >= cumulative_time
\* (cumulative_time summing the earlier Time steps only); a trackpoint with no
\* such step gets no key at all.  With a 60000 ms Time step (100-150 W) and
\* then an Open step (150-200 W), elapsed 30 s gets [100, 150] and 90 s gets
\* [150, 200].
C9_StepAssignment ==
    Mapped =>
        /\ Len(enhanced) = Len(data)
        /\ \A i \in DOMAIN data :
              LET q == {k \in DOMAIN WorkoutSteps : Qualifies(k, Elapsed(i))}
              IN  /\ enhanced[i].tp = data[i]
                  /\ IF q = {} THEN DOMAIN Added(i) = {}
                     ELSE /\ Owned(i)
                          /\ \A k \in q : Added(i).workout_step_index + 1 <= k
                          /\ Added(i).workout_step_index + 1 \in q
                          /\ Added(i).workout_intensity = Owner(i).intensity
                  /\ (workout_type = "bike" /\ WorkoutSteps = TimeThenOpen) =>
                        /\ Elapsed(i) = 30000 =>
                              /\ Added(i).target_power_low = Some(100)
                              /\ Added(i).target_power_high = Some(150)
                        /\ Elapsed(i) = 90000 =>
                              /\ Added(i).target_power_low = Some(150)
                              /\ Added(i).target_power_high = Some(200)

C9_Witness ==
    /\ Mapped /\ workout_type = "bike" /\ WorkoutSteps = TimeThenOpen
    /\ Len(data) = 3 /\ Elapsed(2) = 30000 /\ Elapsed(3) = 90000
    /\ Added(2).workout_step_index = 0 /\ Added(2).target_power_high = Some(150)
    /\ Added(3).workout_step_index = 1 /\ Added(3).target_power_low = Some(150)

\* p is the pace 1000 / (speed / 1000) s/km of a speed in m/s * 1000
IsPaceOf(p, speed) == IsSome(p) /\ Val(p)[1] * speed = 1000000 * Val(p)[2]

\* C10: each trackpoint owned by a run step with a custom speed range gets
\* target_pace_high = 1000 / (speed_low / 1000) and target_pace_low = 1000 /
\* (speed_high / 1000) s/km, so target_pace_low <= target_pace_high whenever
\* 0 < speed_low <= speed_high; each trackpoint owned by a bike step with a
\* custom power range gets the low and high watts unchanged.
C10_TargetConversion ==
    Mapped =>
        \A i \in DOMAIN enhanced : Owned(i) =>
            LET low  == Owner(i).custom_target_value_low
                high == Owner(i).custom_target_value_high
            IN  /\ (workout_type = "run" /\ Owner(i).target_type \in {"speed", "0"}) =>
                      /\ (IsSome(low) /\ Val(low) > 0) =>
                            IsPaceOf(Added(i).target_pace_high, Val(low))
                      /\ (IsSome(high) /\ Val(high) > 0) =>
                            IsPaceOf(Added(i).target_pace_low, Val(high))
                      /\ (IsSome(low) /\ IsSome(high) /\ 0 < Val(low) /\ Val(low) <= Val(high)) =>
                            Val(Added(i).target_pace_low)[1] * Val(Added(i).target_pace_high)[2]
                                <= Val(Added(i).target_pace_high)[1] * Val(Added(i).target_pace_low)[2]
                /\ (workout_type = "bike" /\ Owner(i).target_type \in {"power_3s", "0"}) =>
                      /\ Added(i).target_power_low = low
                      /\ Added(i).target_power_high = high

\* a run trackpoint of a 3.0-3.5 m/s step: paces 1000/3 and 2000/7 s/km
C10_Witness ==
    /\ Mapped /\ workout_type = "run"
    /\ \E i \in DOMAIN enhanced :
          /\ Owned(i)
          /\ Owner(i).custom_target_value_low = Some(3000)
          /\ Owner(i).custom_target_value_high = Some(3500)
          /\ Added(i).target_pace_high = Some(<<1000, 3>>)
          /\ Added(i).target_pace_low = Some(<<2000, 7>>)

\* C11: the run target paces written by map_targets_to_timestamps are values
\* with two decimal places: a speed of 3000 gives the pace 333.33, 3500 gives
\* 285.71 and 2500 gives 400.0.
C11_PaceTwoDecimals ==
    Mapped =>
        \A i \in DOMAIN enhanced :
            (Owned(i) /\ workout_type = "run" /\ Owner(i).target_type \in {"speed", "0"}) =>
                LET high == Owner(i).custom_target_value_high
                    Expected(speed) == IF speed = 3000 THEN <<33333, 100>>
                                       ELSE IF speed = 3500 THEN <<28571, 100>>
                                       ELSE <<400, 1>>
                IN  (IsSome(high) /\ Val(high) \in {2500, 3000, 3500}) =>
                        /\ 100 % Val(Added(i).target_pace_low)[2] = 0
                        /\ Added(i).target_pace_low = Some(Expected(Val(high)))

-----------------------------------------------------------------------------
(* Properties of extract_swim_targets_from_step_name *)

Extracted == pc = "extracted"

PaceTextKinds ==
    <<"word", "ws", "num", ":", "num", "endash", "num", ":", "num", "/", "num", "ws", "word">>

\* the 13 tokens from k on read "...Pace m:ss–m:ss/n yards..." or "... meters..."
PaceTextAt(name, k) ==
    /\ k + 12 <= Len(name)
    /\ [i \in 1..13 |-> name[k + i - 1].kind] = PaceTextKinds
    /\ name[k].text \in {"Pace", "SubPace"}
    /\ name[k + 12].text \in {"yards", "meters", "yardsticks"}

\* the targets read from the pace text at k
TargetsAt(name, k) ==
    /\ DOMAIN swim_targets =
          {"target_pace_low", "target_pace_high", "target_distance", "target_unit"}
    /\ swim_targets.target_pace_low = name[k + 2].n * 60 + name[k + 4].n
    /\ swim_targets.target_pace_high = name[k + 6].n * 60 + name[k + 8].n
    /\ swim_targets.target_distance = name[k + 10].n
    /\ swim_targets.target_unit = IF name[k + 12].text = "meters" THEN "meters" ELSE "yards"

\* the whole name is "Pace m:ss–m:ss/n yards" or "Pace m:ss–m:ss/n meters"
IsPaceName(name) ==
    /\ Len(name) = 13
    /\ PaceTextAt(name, 1)
    /\ name[1].text = "Pace"
    /\ name[13].text \in {"yards", "meters"}

-----------------------------------------------------------------------------
(* Properties of the PMC calculation *)

PmcComputed == pmc_result.kind \in {"metrics", "summary"}

\* the date the loads were computed for
TargetDate ==
    IF pmc_request.op = "calculate_pmc_metrics" THEN pmc_request.today
    ELSE pmc_request.target_date

\* the workouts handed to calculate_ctl and calculate_atl
HandedOver ==
    IF pmc_request.op = "calculate_pmc_metrics" THEN {DatedTss(r) : r \in workouts}
    ELSE get_workouts_for_athlete(pmc_request.athlete_id,
                                  pmc_request.target_date - 42, pmc_request.target_date)

\* the workouts of the list at a day offset of 0..n from the target date
Contributing(n) ==
    {w \in HandedOver : 0 <= TargetDate - w.date /\ TargetDate - w.date <= n}

\* the average of the TSS of the contributing workouts, each weighted with
\* exp(-1/n)^d, in millionths
WeightedAverage(n) ==
    LET weight(w) == decay_weight(n, TargetDate - w.date)
        load(w) == w.tss * weight(w)
    IN  Quotient6(SetSum(load, Contributing(n)), SetSum(weight, Contributing(n)))

LoadIsAverage(raw, n) ==
    IF Contributing(n) = {} THEN raw = 0
    ELSE /\ raw = WeightedAverage(n)
         /\ \E w \in Contributing(n) : w.tss * Million <= raw
         /\ \E w \in Contributing(n) : raw <= w.tss * Million

\* C13: a workout at day offset d from the target date contributes to CTL iff
\* 0 <= d <= 42 and to ATL iff 0 <= d <= 7, with weight exp(-1/N)^d; CTL
\* (ATL) is the weight-normalised average of the contributing TSS values, lies
\* between the smallest and the largest of them, and is 0.0 when no workout
\* contributes.
C13_WindowedAverage ==
    PmcComputed =>
        /\ LoadIsAverage(pmc_result.ctl_raw, 42)
        /\ LoadIsAverage(pmc_result.atl_raw, 7)
        /\ Contributing(42) = {} => pmc_result.ctl = 0
        /\ Contributing(7) = {} => pmc_result.atl = 0

\* workouts 42 and 8 days back: both in the CTL, none in the ATL
C13_Witness ==
    /\ pmc_result.kind = "summary" /\ pmc_request.today = 100
    /\ {w.date : w \in HandedOver} = {58, 92}
    /\ pmc_result.ctl_raw > 50 * Million /\ pmc_result.ctl_raw < 100 * Million
    /\ pmc_result.atl_raw = 0

\* the stored workouts of the athlete with a TSS, dated D - 42 days .. D
InClosedRange ==
    {r \in workouts :
        /\ r.athlete_id = pmc_request.athlete_id
        /\ IsSome(r.tss)
        /\ pmc_request.target_date - 42 <= r.day
        /\ r.day <= pmc_request.target_date}

\* C14: calculate_daily_metrics(athlete, D) takes into account every stored
\* workout of that athlete with non-null TSS dated in [D - 42 days, D], those
\* of day D itself at any time of day included, and no other workout.
C14_FetchClosedRange ==
    pmc_result.kind = "metrics" =>
        /\ HandedOver = {DatedTss(r) : r \in InClosedRange}
        /\ pmc_result.ctl_raw =
              calculate_ctl({DatedTss(r) : r \in InClosedRange}, pmc_request.target_date)

\* C15: the three reported values, each rounded to 2 decimals, satisfy
\* tsb = ctl - atl exactly.
C15_TsbExact ==
    PmcComputed => pmc_result.tsb = pmc_result.ctl - pmc_result.atl

-----------------------------------------------------------------------------
(* Properties of save_daily_metrics *)

OneRowPerAthleteAndDate ==
    \A r, q \in daily_metrics : (r.athlete_id = q.athlete_id /\ r.date = q.date) => r = q

\* a save step leaves the saved values in the row of its (athlete, date) and
\* every row of another pair as it was
SaveStep ==
    (pmc_request'.op = "save_daily_metrics" /\ pmc_request'.athlete_id \in Athletes) =>
        LET mine(r) == r.athlete_id = pmc_request'.athlete_id
                       /\ r.date = pmc_request'.target_date
        IN  /\ {r \in daily_metrics' : mine(r)} =
                  {DailyRow(pmc_request'.athlete_id, pmc_request'.target_date,
                            pmc_request'.metrics)}
            /\ {r \in daily_metrics' : ~mine(r)} = {r \in daily_metrics : ~mine(r)}

\* C16: after any sequence of save_daily_metrics calls the store holds at most
\* one row per (athlete, date), carrying the ctl, atl and tsb of the most
\* recent save for that pair; a save leaves the rows of other pairs unchanged.
C16_UpsertPerAthleteAndDate == [](OneRowPerAthleteAndDate) /\ [][SaveStep]_vars

\* a row was saved over while another pair's row is in the store
C16_Witness ==
    /\ pmc_request.op = "save_daily_metrics" /\ pmc_request.athlete_id = "a1"
    /\ pmc_request.metrics.ctl = 7530
    /\ DailyRow("a1", 100, pmc_request.metrics) \in daily_metrics
    /\ \E r \in daily_metrics : r.athlete_id = "a2" /\ r.ctl = 8750
    /\ Cardinality(daily_metrics) = 4

-----------------------------------------------------------------------------
(* Properties of merge_power_into_tcx *)

Merged == pc \in {"merged", "merged_twice"}

\* the samples whose timestamp, cut to whole seconds, is that of trackpoint i
SamplesAt(i) ==
    IF ~IsSome(tcx_trackpoints[i].timestamp) THEN {}
    ELSE {j \in DOMAIN power_series :
             /\ IsSome(power_series[j].timestamp)
             /\ Val(power_series[j].timestamp).wall \div 1000
                    = Val(tcx_trackpoints[i].timestamp).wall \div 1000}

\* trackpoint i of the result carries every field of sample j
Carries(i, j) ==
    \A k \in DOMAIN power_series[j].fields :
        /\ k \in DOMAIN merged[i].fields
        /\ merged[i].fields[k] = power_series[j].fields[k]

\* trackpoint i of the result is the input trackpoint plus the fields of sample j
MergedWith(i, j) ==
    /\ merged[i].timestamp = tcx_trackpoints[i].timestamp
    /\ DOMAIN merged[i].fields =
          DOMAIN tcx_trackpoints[i].fields \cup DOMAIN power_series[j].fields
    /\ Carries(i, j)
    /\ \A k \in DOMAIN tcx_trackpoints[i].fields \ DOMAIN power_series[j].fields :
          merged[i].fields[k] = tcx_trackpoints[i].fields[k]

\* C17 as stated: the result has the length and order of the trackpoints; a
\* trackpoint whose timestamp, cut to whole seconds without timezone, equals
\* that of a power sample carries all fields of that sample; every other
\* trackpoint is unchanged.
C17_Original ==
    Merged =>
        /\ Len(merged) = Len(tcx_trackpoints)
        /\ \A i \in DOMAIN tcx_trackpoints :
              IF SamplesAt(i) = {} THEN merged[i] = tcx_trackpoints[i]
              ELSE \A j \in SamplesAt(i) : Carries(i, j)

\* C17, amended: the result has the length and order of the trackpoints; a
\* trackpoint whose timestamp, cut to whole seconds without timezone, equals
\* that of one or more power samples carries the fields of the last of them in
\* the sample list (overwriting same-named fields) and of no other sample;
\* every other trackpoint, one with an unreadable timestamp included, is
\* unchanged; samples matching no trackpoint appear nowhere.
C17_MergeByLastSample ==
    Merged =>
        /\ Len(merged) = Len(tcx_trackpoints)
        /\ \A i \in DOMAIN tcx_trackpoints :
              IF SamplesAt(i) = {} THEN merged[i] = tcx_trackpoints[i]
              ELSE MergedWith(i, CHOOSE j \in SamplesAt(i) : \A h \in SamplesAt(i) : h <= j)

\* two samples of one second: the trackpoint got the later one's field only
C17_Witness ==
    /\ Merged
    /\ \E i \in DOMAIN merged :
          /\ Cardinality(SamplesAt(i)) = 2
          /\ DOMAIN merged[i].fields = {"heart_rate", "accumulated_power"}
          /\ merged[i].fields.accumulated_power = 5

\* C18: merge(T, []) = T and merge(merge(T, P), P) = merge(T, P).
C18_MergeIdempotent ==
    /\ (Merged /\ power_series = <<>>) => merged = tcx_trackpoints
    /\ pc = "merged_twice" => merged_again = merged

\* a merge that changed a trackpoint was repeated
C18_Witness ==
    /\ pc = "merged_twice"
    /\ merged # tcx_trackpoints
    /\ merged_again = merged

-----------------------------------------------------------------------------
(* Properties of process_activity_files *)

\* C19: in every processed record the trackpoints are in ascending order of
\* timestamp and no two of them have the same timestamp.
C19_SortedNoDuplicates ==
    \A r \in DOMAIN processed :
        \A i, j \in DOMAIN processed[r].data :
            i < j => processed[r].data[i].tp.timestamp < processed[r].data[j].tp.timestamp

\* C20: two runs in succession on one workout directory return the same
\* record, target_info and the keys added to the trackpoints included.
C20_RerunSameRecord ==
    Len(processed) >= 2 => processed[2] = processed[1]

-----------------------------------------------------------------------------
(* Open steps and the order of the step indices *)

IsAscendingData ==
    \A i \in 1..(Len(data) - 1) : data[i].timestamp <= data[i + 1].timestamp

\* C29: for trackpoints in ascending time order, no trackpoint is assigned to
\* a step that comes after an Open step of the list, and the
\* workout_step_index values are non-decreasing along the trackpoints.
C29_OpenStepIsLast ==
    (Mapped /\ IsAscendingData) =>
        /\ \A i \in DOMAIN enhanced : Owned(i) =>
              \A k \in DOMAIN WorkoutSteps :
                  IsOpenStep(k) => Added(i).workout_step_index + 1 <= k
        /\ \A i, j \in DOMAIN enhanced :
              (i < j /\ Owned(i) /\ Owned(j)) =>
                  Added(i).workout_step_index <= Added(j).workout_step_index

\* an Open step before a 60 s Time step took the trackpoint at 30 s; and a
\* Time step followed by an Open step gave the indices 0, 0, 1
C29_Witness ==
    /\ Mapped /\ IsAscendingData /\ Len(data) = 3
    /\ \/ /\ WorkoutSteps = <<TimeThenOpen[2], TimeThenOpen[1]>>
          /\ Elapsed(2) = 30000
          /\ Added(2).workout_step_index = 0
       \/ /\ WorkoutSteps = TimeThenOpen
          /\ Added(1).workout_step_index = 0
          /\ Added(2).workout_step_index = 0
          /\ Added(3).workout_step_index = 1

-----------------------------------------------------------------------------
(* Moving time and the pause threshold *)

\* C25: for thresholds t1 <= t2, duration_sec computed with t1 is at most
\* duration_sec computed with t2.
C25_MonotoneInThreshold ==
    (pc = "compared" /\ IsSome(durations[1]) /\ IsSome(durations[2])) =>
        Val(durations[1]) <= Val(durations[2])

\* a gap of 5 s counted under threshold 9 and not under threshold 5
C25_Witness ==
    /\ pc = "compared"
    /\ pause_thresholds = <<PAUSE_THRESHOLD, 9>>
    /\ IsSome(durations[1]) /\ IsSome(durations[2])
    /\ Val(durations[1]) = 3
    /\ Val(durations[2]) = 8

-----------------------------------------------------------------------------
(* Properties of the athlete profiles *)

RowsOf(athlete) == {i \in DOMAIN athlete_profile : athlete_profile[i].json_athlete_id = athlete}
ActiveRowsOf(athlete) == {i \in RowsOf(athlete) : athlete_profile[i].valid_to = NoneV}
LastRowOf(athlete) == CHOOSE i \in RowsOf(athlete) : \A j \in RowsOf(athlete) : j <= i

\* every call for the athlete read a later clock time than the calls before it
ClockAdvanced(athlete) ==
    \A i, j \in RowsOf(athlete) :
        i < j => athlete_profile[i].valid_from < athlete_profile[j].valid_from

AskedFor(athlete) ==
    /\ profile_request.op = "get_active_profile"
    /\ profile_request.athlete_id = Some(athlete)

ReturnsLastCall(athlete) ==
    /\ IsSome(profile_result)
    /\ Val(profile_result) = parse_profile_row(athlete_profile[LastRowOf(athlete)])

C26_OneActiveUnderConcurrency ==
    Cardinality(ActiveRowsOf("a1")) = 1

-----------------------------------------------------------------------------
(* Properties of process_downloaded_files *)

\* the workout the loop is working on, its record not yet written
InFlight == pipeline.stage \in {"metrics", "zones", "save", "raised"}

\* C21: while a workout is being processed and its processed record has not
\* been written yet, the date directory holds exactly the files it held when
\* the processing of that workout started (so abandoning the computation
\* there leaves no trace).
C21_NoEffectBeforeFinalWrite ==
    InFlight => date_dir = pipeline.at_start

\* the workouts before and after the one the loop stopped at
Written(k) == IsSome(date_dir[k].processed_json)

\* a workout whose own processing meets no error: the sport's section is in
\* profile.json
InputsValid(k) ==
    /\ IsSome(profile_json)
    /\ date_dir[k].sport = "bike" => IsSome(Val(profile_json).zones.bike_power)
    /\ date_dir[k].sport = "run" => IsSome(Val(profile_json).zones.run_power)

\* C24: once process_downloaded_files is over (returned or left by an
\* exception), every workout of the directory whose own processing meets no
\* error has been through the loop body: with an active profile in the
\* database its record went to save_json_data.
C24_ErrorsDoNotStopTheLoop ==
    pipeline.stage \in {"finished", "raised"} /\ IsSome(profile_json)
        => \A k \in DOMAIN date_dir :
              InputsValid(k) => k <= pipeline.cursor

\* the bike baseline of the profile version active for the athlete of record rec
ActiveFtp(rec) ==
    {athlete_profile[i].bike_ftp_power :
        i \in latest_active(athlete_profile, Some(rec.athlete_id))}

\* C22: a processed bike record carries the TSS computed with the FTP of the
\* profile version active when it was processed (the profile is not edited
\* once processing has begun).
C22_ActiveBaselineUsed ==
    \A k \in DOMAIN date_dir :
        Written(k) /\ date_dir[k].sport = "bike" =>
            LET rec == Val(date_dir[k].processed_json)
            IN  \E ftp \in ActiveFtp(rec) :
                   rec.metrics \in calculate_tss_bike(as_rows(rec.data), ftp)

-----------------------------------------------------------------------------
(* Properties of the sync runs *)

\* C27: the workout table holds at most one row per activity_id of the
\* athlete, however the sync runs interleave.
C27_OneRowPerActivity ==
    \A i, j \in DOMAIN workout_table :
        workout_table[i].activity_id = workout_table[j].activity_id => i = j

NoRunUnderWay == \A r \in SyncRuns : sync_runs[r].phase \in {"idle", "done"}

LatestInserted == SetMax({workout_table[i].timestamp : i \in DOMAIN workout_table})

\* C28: with the sync runs one after the other, the workout sync timestamp
\* never decreases, and whenever a run has ended it is the latest timestamp
\* among the workouts inserted so far.
C28_SyncTimestampFollowsLatest ==
    /\ [][IsSome(sync_table) =>
              IsSome(sync_table') /\ Val(sync_table') >= Val(sync_table)]_vars
    /\ [](NoRunUnderWay /\ workout_table # <<>> => sync_table = Some(LatestInserted))

-----------------------------------------------------------------------------
(* Properties of the PMC queries *)

\* the sets of the athlete's stored workouts with a TSS that include w
SetsIncluding(w) ==
    {S \in SUBSET {r \in workouts : r.athlete_id = w.athlete_id /\ IsSome(r.tss)} : w \in S}

\* the row's CTL and ATL are those of date w.day over a set including w
ComputedIncluding(w, row) ==
    \E S \in SetsIncluding(w) :
        LET m == pmc_values("metrics", {DatedTss(r) : r \in S}, w.day)
        IN  row.ctl = m.ctl /\ row.atl = m.atl

\* the last request was a query covering w's date, answered for that date
\* with values computed including w
AnsweredIncluding(w) ==
    /\ pmc_request.op = "get_pmc_metrics"
    /\ pmc_request.athlete_id = w.athlete_id
    /\ pmc_request.start_date <= w.day
    /\ w.day <= pmc_request.end_date
    /\ \E row \in pmc_result.metrics : row.date = w.day /\ ComputedIncluding(w, row)

\* C30: once a workout with a TSS is stored, the queries covering its date
\* eventually return, for that date, CTL and ATL computed from a workout set
\* that includes it.
C30_QueriesCatchUp ==
    \A w \in SyncedWorkouts : (w \in workouts) ~> AnsweredIncluding(w)

====
